---- MODULE Spec2Model ----
(***************************************************************************)
(* Model of the semantic-find browser extension (diabhiue/semantic-find):  *)
(* the highlighter (registry, active id, the two rendering backends and    *)
(* the text location algorithm), the overlay (visibility, debounce timer,  *)
(* result list) and the content script (indexing, search, navigation,      *)
(* close).  Left out: the status line, the summary panel, input focus and  *)
(* scrolling.                                                              *)
(*                                                                         *)
(* Strings are sequences of one-character strings.  The document is the    *)
(* sequence of its text nodes in document order; every text node carries   *)
(* the properties of its parent element that the code reads and the stack  *)
(* of marker <span> elements the fallback backend has wrapped around it.   *)
(*                                                                         *)
(* A function of the source is an operator from the program state (a       *)
(* record, see Page) to the program state.  Where the source names an      *)
(* intermediate value and uses it several times, the model passes it on as *)
(* the parameter of a helper operator.                                     *)
(***************************************************************************)
EXTENDS Integers, Sequences, FiniteSets, TLC

\* ------------------------------------------------------------------------
\* Bounds of the model (not program constants)
\* ------------------------------------------------------------------------
MaxChunkId == 1      \* chunk ids the highlighter API is called with: 0..MaxChunkId
MaxSpans == 1        \* marker elements a caller of the highlighter API may let pile up
MaxInFlight == 2     \* requests awaiting their response at once
MaxResults == 2      \* results in one search response
MaxIssuedIds == 4    \* chunk ids issued in one page session
MaxFragments == 3    \* text nodes of a page handed to the chunker
MaxTargetSize == 8   \* largest targetSize chunkText is called with
MaxNavResults == 3     \* results of one search shown in the overlay
MaxTexts == 34         \* texts of one generateEmbeddings call
MaxRankChunks == 3     \* chunks of one findTopKSimilar call, and its k

\* ------------------------------------------------------------------------
\* Values
\* ------------------------------------------------------------------------
NoId == -1           \* activeHighlightId = null
NoRange == [sn |-> 0, so |-> 0, en |-> 0, eo |-> 0, span |-> 0]

HIGHLIGHT_NAME == "semantic-find-highlight"
ACTIVE_HIGHLIGHT_NAME == "semantic-find-highlight-active"

Min(a, b) == IF a < b THEN a ELSE b

\* Bags of pending requests: request -> how many of it are pending
NoRequests == <<>>
bagAdd(b, r) == IF r \in DOMAIN b THEN [b EXCEPT ![r] = @ + 1] ELSE b @@ (r :> 1)
bagRemove(b, r) ==
  IF b[r] > 1 THEN [b EXCEPT ![r] = @ - 1] ELSE [x \in DOMAIN b \ {r} |-> b[x]]
bagSize(b) == Cardinality({<<r, k>> \in (DOMAIN b) \X (1..MaxInFlight + 1) : k <= b[r]})

\* ------------------------------------------------------------------------
\* Text primitives (JavaScript string semantics on sequences of characters)
\* ------------------------------------------------------------------------
\* /\s/ on the model's alphabet
IsSpace(c) == c \in {" ", "\n"}

\* String.prototype.toLowerCase on the model's alphabet
toLowerCase(t) ==
  [i \in 1..Len(t) |->
     CASE t[i] = "A" -> "a"
       [] t[i] = "B" -> "b"
       [] t[i] = "C" -> "c"
       [] OTHER -> t[i]]

\* replace(/\s+/g, ' '): every maximal run of whitespace becomes one space
\* (a whitespace character is kept, as a space, iff it starts its run)
collapseWhitespace(t) ==
  SelectSeq([i \in 1..Len(t) |->
               IF ~IsSpace(t[i]) THEN t[i]
               ELSE IF i = 1 \/ ~IsSpace(t[i - 1]) THEN " "
               ELSE "drop"],
            LAMBDA c : c # "drop")

\* String.prototype.trimStart
RECURSIVE trimStart(_)
trimStart(t) ==
  IF t # <<>> /\ IsSpace(Head(t)) THEN trimStart(Tail(t)) ELSE t

\* String.prototype.trimEnd
RECURSIVE trimEnd(_)
trimEnd(t) ==
  IF t # <<>> /\ IsSpace(t[Len(t)]) THEN trimEnd(SubSeq(t, 1, Len(t) - 1)) ELSE t

\* String.prototype.trim
trim(t) == trimEnd(trimStart(t))

\* substring(0, n)
substring0(t, n) == SubSeq(t, 1, Min(n, Len(t)))

\* The least of a set of indices, -1 if there is none
firstIndex(hits) ==
  IF hits = {} THEN -1 ELSE CHOOSE i \in hits : \A j \in hits : i <= j

\* String.prototype.indexOf: 0-based index of the first occurrence, -1 if none
indexOf(hay, needle) ==
  firstIndex({i \in 0..(Len(hay) - Len(needle)) :
                SubSeq(hay, i + 1, i + Len(needle)) = needle})

\* The position where the word that starts at position s of t ends
wordEnd(t, s) ==
  firstIndex({j \in s..Len(t) : j = Len(t) \/ IsSpace(t[j + 1])})

\* The positions where the words of t start, in order
wordStarts(t) ==
  SelectSeq([i \in 1..Len(t) |-> i],
            LAMBDA i : ~IsSpace(t[i]) /\ (i = 1 \/ IsSpace(t[i - 1])))

\* The words of t that start at the positions starts
wordsAt(t, starts) == [k \in 1..Len(starts) |-> SubSeq(t, starts[k], wordEnd(t, starts[k]))]

\* text.split(/\s+/): the pieces between maximal whitespace runs (the words,
\* in order), with an empty piece in front when the text starts with
\* whitespace or is empty, and one behind when it ends with whitespace
splitWhitespace(t) ==
  (IF t = <<>> \/ IsSpace(t[1]) THEN << <<>> >> ELSE <<>>)
  \o wordsAt(t, wordStarts(t))
  \o (IF t # <<>> /\ IsSpace(t[Len(t)]) THEN << <<>> >> ELSE <<>>)

\* words.join(' ')
RECURSIVE joinSpace(_)
joinSpace(words) ==
  IF words = <<>> THEN <<>>
  ELSE IF Len(words) = 1 THEN words[1]
       ELSE words[1] \o <<" ">> \o joinSpace(Tail(words))

\* Normalize text for comparison
normalizeText(text) == trim(collapseWhitespace(toLowerCase(text)))

\* words.slice(0, count).join(' ')
sliceJoin(words, count) == joinSpace(SubSeq(words, 1, Min(count, Len(words))))

\* Get first N words from text
getFirstWords(text, count) == sliceJoin(splitWhitespace(text), count)

\* normIndex when the loop has passed the first i characters of text: a
\* character counts unless it is whitespace behind whitespace
normIndexAt(text, i) ==
  Cardinality({j \in 1..i : ~IsSpace(text[j]) \/ j = 1 \/ ~IsSpace(text[j - 1])})

\* Map normalized text position to actual text position: the first i at
\* which 'normIndex >= normalizedPos' holds, text.length when the loop ends
mapNormalizedToActual(text, normalizedPos) ==
  IF \E i \in 0..(Len(text) - 1) : normIndexAt(text, i) >= normalizedPos
  THEN firstIndex({i \in 0..(Len(text) - 1) : normIndexAt(text, i) >= normalizedPos})
  ELSE Len(text)

\* ------------------------------------------------------------------------
\* The document: its text nodes in document order
\* ------------------------------------------------------------------------
\* A text node: its data, what the code reads of its parent element (tag,
\* computed display and visibility), whether shouldSkipElement holds of that
\* element, whether it lies in the content root, and the marker elements
\* wrapped around it (outermost first).
TextNode(text, tag, display, visibility, skip, inRoot) ==
  [text |-> text, tag |-> tag, display |-> display, visibility |-> visibility,
   skip |-> skip, inRoot |-> inRoot, spans |-> <<>>]

P(text) == TextNode(text, "P", "block", "visible", FALSE, TRUE)

\* <p>Abc</p><nav>xyz</nav><p> de  f</p><p>ghi</p><p style="visibility:hidden">abc</p>
DocArticle ==
  << P(<<"A", "b", "c">>),
     TextNode(<<"x", "y", "z">>, "NAV", "block", "visible", TRUE, TRUE),
     P(<<" ", "d", "e", " ", " ", "f">>),
     P(<<"g", "h", "i">>),
     TextNode(<<"a", "b", "c">>, "P", "block", "hidden", FALSE, TRUE) >>

\* <p>ghi abc</p><script>abc</script><p>abc</p>
DocRepeat ==
  << P(<<"g", "h", "i", " ", "a", "b", "c">>),
     TextNode(<<"a", "b", "c">>, "SCRIPT", "block", "visible", TRUE, TRUE),
     P(<<"a", "b", "c">>) >>

Docs == {DocArticle, DocRepeat}

\* <p>Abc</p><nav>xyz</nav><p> de  f</p>
DocPage ==
  << P(<<"A", "b", "c">>),
     TextNode(<<"x", "y", "z">>, "NAV", "block", "visible", TRUE, TRUE),
     P(<<" ", "d", "e", " ", " ", "f">>) >>

\* <p> q abc </p><p>abc</p>
DocPadded ==
  << P(<<" ", "q", " ", "a", "b", "c", " ">>),
     P(<<"a", "b", "c">>) >>

\* <body><div>cd e</div><main><p>ab</p><p>abc</p></main></body>
DocMain ==
  << TextNode(<<"c", "d", " ", "e">>, "DIV", "block", "visible", FALSE, FALSE),
     P(<<"a", "b">>),
     P(<<"a", "b", "c">>) >>

\* The text of a long paragraph: eight words of one letter, then words of
\* two, 106 characters in all
LongText ==
  << "a", " ", "b", " ", "c", " ", "d", " ", "e", " ", "f", " ", "g", " ", "h", " ",
     "i", "j", " ", "k", "l", " ", "m", "n", " ", "o", "p", " ", "q", "r", " ", "s",
     "t", " ", "u", "v", " ", "w", "x", " ", "y", "z", " ", "i", "0", " ", "i", "1",
     " ", "i", "2", " ", "i", "3", " ", "i", "4", " ", "i", "5", " ", "i", "6", " ",
     "i", "7", " ", "i", "8", " ", "i", "9", " ", "j", "0", " ", "j", "1", " ", "j",
     "2", " ", "j", "3", " ", "j", "4", " ", "j", "5", " ", "j", "6", " ", "j", "7",
     " ", "j", "8", " ", "j", "9", " ", "e", "n", "d" >>

\* <p>a b c d e f g h ij kl ... end</p>
DocLong == << P(LongText) >>

\* The documents a text is located in
LocDocs == {DocArticle, DocRepeat, DocPadded, DocMain, DocLong}

\* The element a text node's parentElement is: the innermost marker span, or
\* the original element
parentTag(n) == IF n.spans # <<>> THEN "SPAN" ELSE n.tag
parentDisplay(n) == IF n.spans # <<>> THEN "inline" ELSE n.display

\* The marker elements of the document (document.querySelectorAll(
\* '.semantic-find-highlight'))
markerSpans(d) ==
  UNION {{d[i].spans[k] : k \in 1..Len(d[i].spans)} : i \in 1..Len(d)}

\* span.className of marker element span: set when the element is created
\* ('span.className = ...', 'highlightSpan.className = ...'), assigned
\* nowhere else
className(span) == "semantic-find-highlight"

\* document.querySelectorAll('.' + name)
querySelectorAll(d, name) == {span \in markerSpans(d) : className(span) = name}

\* ------------------------------------------------------------------------
\* Location of a text in the live document
\* ------------------------------------------------------------------------
\* acceptNode of the TreeWalker
acceptNode(n) ==
  /\ ~(parentDisplay(n) = "none" \/ n.visibility = "hidden")
  /\ parentTag(n) \notin {"SCRIPT", "STYLE", "NOSCRIPT", "TEMPLATE"}

\* Indices (1-based, into the document) of the nodes pushed to textNodes:
\* the accepted nodes that are not whitespace only
walkTextNodes(d) ==
  SelectSeq([i \in 1..Len(d) |-> i],
            LAMBDA i : acceptNode(d[i]) /\ Len(trim(d[i].text)) # 0)

\* fullText: every pushed node's text followed by a space
RECURSIVE buildFullText(_, _)
buildFullText(d, idx) ==
  IF idx = <<>> THEN <<>>
  ELSE d[Head(idx)].text \o <<" ">> \o buildFullText(d, Tail(idx))

\* The loop mapping the match back to DOM positions.  st = [sn, so, pos]:
\* startNode (0 = null), startOffset and normalizedPos.
RECURSIVE mapMatchLoop(_, _, _, _, _)

\* 'Find start position': st with the start set if the match starts in node i
findStart(st, i, text, matchIndex, nodeEndNorm) ==
  IF st.sn = 0 /\ matchIndex >= st.pos /\ matchIndex < nodeEndNorm
  THEN [st EXCEPT !.sn = i, !.so = mapNormalizedToActual(text, matchIndex - st.pos)]
  ELSE st

\* 'Find end position' and the step to the next node
findEnd(d, idx, matchIndex, matchEnd, st, text, nodeEndNorm) ==
  IF st.sn # 0 /\ matchEnd > st.pos /\ matchEnd <= nodeEndNorm
  THEN [sn |-> st.sn, so |-> st.so, en |-> Head(idx),
        eo |-> mapNormalizedToActual(text, matchEnd - st.pos), span |-> 0]
  ELSE IF st.sn # 0 /\ matchEnd = nodeEndNorm
  THEN [sn |-> st.sn, so |-> st.so, en |-> Head(idx), eo |-> Len(text), span |-> 0]
  ELSE mapMatchLoop(d, Tail(idx), matchIndex, matchEnd, [st EXCEPT !.pos = nodeEndNorm + 1])

\* One iteration, with nodeEndNorm computed
mapMatchNode(d, idx, matchIndex, matchEnd, st, text, nodeEndNorm) ==
  findEnd(d, idx, matchIndex, matchEnd,
          findStart(st, Head(idx), text, matchIndex, nodeEndNorm), text, nodeEndNorm)

mapMatchLoop(d, idx, matchIndex, matchEnd, st) ==
  IF idx = <<>> THEN NoRange
  ELSE mapMatchNode(d, idx, matchIndex, matchEnd, st, d[Head(idx)].text,
                    st.pos + Len(normalizeText(d[Head(idx)].text)))

\* range.setStart / range.setEnd with the clamped offsets; setEnd before the
\* start collapses the range onto the end
setStartEnd(r, so, eo) ==
  IF r.en < r.sn \/ (r.en = r.sn /\ eo < so)
  THEN [sn |-> r.en, so |-> eo, en |-> r.en, eo |-> eo, span |-> 0]
  ELSE [sn |-> r.sn, so |-> so, en |-> r.en, eo |-> eo, span |-> 0]

\* 'if (startNode && endNode)': the range, or null
makeRange(d, r) ==
  IF r = NoRange THEN NoRange
  ELSE setStartEnd(r, Min(r.so, Len(d[r.sn].text)), Min(r.eo, Len(d[r.en].text)))

\* findRangeForText from the match index on
mapMatch(d, idx, matchIndex, searchText) ==
  IF matchIndex = -1 THEN NoRange
  ELSE makeRange(d, mapMatchLoop(d, idx, matchIndex, matchIndex + Len(searchText),
                                 [sn |-> 0, so |-> 0, pos |-> 0]))

\* findRangeForText from the list of text nodes on
findInNodes(d, idx, searchText) ==
  mapMatch(d, idx, indexOf(normalizeText(buildFullText(d, idx)), searchText), searchText)

\* normalizedFull: the normalized text of all the text nodes pushed
normalizedFull(d) == normalizeText(buildFullText(d, walkTextNodes(d)))

\* Find a range for specific text using TreeWalker (NoRange = null)
findRangeForText(d, searchText) == findInNodes(d, walkTextNodes(d), searchText)

\* The search strategies tried in order
searchStrategies(normalizedSearch) ==
  << normalizedSearch,
     substring0(normalizedSearch, Min(100, Len(normalizedSearch))),
     substring0(normalizedSearch, Min(60, Len(normalizedSearch))),
     substring0(normalizedSearch, Min(40, Len(normalizedSearch))),
     getFirstWords(normalizedSearch, 8),
     getFirstWords(normalizedSearch, 5),
     getFirstWords(normalizedSearch, 3) >>

\* The loop over the strategies: the first range found, alone
RECURSIVE tryStrategies(_, _)

\* pushOrNext that prefers the range of a later strategy (C31 tells it apart)
pushOrNextLater(d, rest, range) ==
  IF tryStrategies(d, rest) # <<>> THEN tryStrategies(d, rest)
  ELSE IF range # NoRange THEN <<range>> ELSE <<>>

\* 'if (range) { ranges.push(range); break; }'
pushOrNext(d, rest, range) ==
  IF range # NoRange THEN <<range>> ELSE tryStrategies(d, rest)

tryStrategies(d, strategies) ==
  IF strategies = <<>> THEN <<>>
  ELSE IF Len(Head(strategies)) < 3 THEN tryStrategies(d, Tail(strategies))
  ELSE pushOrNext(d, Tail(strategies), findRangeForText(d, Head(strategies)))

\* findTextRanges from the normalized search text on
findNormalized(d, normalizedSearch) ==
  IF Len(normalizedSearch) < 3 THEN <<>>
  ELSE tryStrategies(d, searchStrategies(normalizedSearch))

\* Find all ranges matching the search text
findTextRanges(d, searchText) == findNormalized(d, normalizeText(searchText))

\* ------------------------------------------------------------------------
\* The highlighter: registry, active id, rendering
\* ------------------------------------------------------------------------
VARIABLES
  \* highlighter
  supportsHighlightAPI,  \* 'highlights' in CSS, fixed when the module loads
  highlightedChunks,     \* Map<string, Range[]>: entries [id, ranges] in insertion order
  activeHighlightId,     \* chunk id or NoId
  cssHighlights,         \* CSS.highlights: name -> ranges (<<>> = no entry)
  stylesInjected,        \* the <style> element of injectHighlightStyles exists
  dom,                   \* the document's text nodes
  lastReturn,            \* what the last highlightText call returned
  \* overlay
  isVisible,             \* the overlay is shown
  inputValue,            \* value of #sf-search-input
  searchTimeout,         \* the debounce timer is pending
  overlayResults,        \* the overlay's currentResults
  currentIndex,          \* the overlay's currentIndex
  countText,             \* #sf-result-count: <<>> or <<i, n>> for 'i of n'
  \* content script
  chunkSize,             \* settings.chunkSize
  pageChunks,
  isIndexed,
  currentResults,        \* the content script's currentResults
  chunkIdCounter,
  embeddingRequests,     \* GET_EMBEDDINGS requests awaiting their response (a bag)
  searchRequests,        \* SEARCH_QUERY requests awaiting their response (a bag)
  \* embedding provider
  embeddingPipeline,     \* the feature-extraction pipeline is loaded (FALSE = null)
  modelStatus,           \* 'idle', 'loading', 'ready' or 'error'
  \* service worker and offscreen document
  creatingOffscreen,     \* the promise of createDocument: "null", "pending", "fulfilled" or "rejected"
  offscreenDocument,     \* the browser's side: [exists, creating, refusing]
  isLoading,             \* the offscreen document's isLoading
  embeddingCache,        \* the pageEmbeddings store: entries [url, chunks, expired]
  calls,                 \* the suspended calls of an async function, in the order they were made
  \* history (not program state)
  okIds,                 \* ids whose latest highlightText returned true, not removed or cleared since
  lastBatch,             \* ids registered while the latest search response was processed
  staleDropped,          \* the latest search response found highlights of ids it did not register itself
  lastOp                 \* the call that led to this state, and what the state before it was (see ApiStep)

vars == << supportsHighlightAPI, highlightedChunks, activeHighlightId, cssHighlights,
           stylesInjected, dom, lastReturn, isVisible, inputValue,
           searchTimeout, overlayResults, currentIndex, countText,
           chunkSize, pageChunks, isIndexed, currentResults, chunkIdCounter,
           embeddingRequests, searchRequests, okIds, lastBatch, staleDropped, lastOp,
           embeddingPipeline, modelStatus,
                  creatingOffscreen, offscreenDocument, isLoading, embeddingCache, calls >>

\* The program state as one value, so that operations compose
Page == [chunks |-> highlightedChunks, active |-> activeHighlightId,
         css |-> cssHighlights, styles |-> stylesInjected, dom |-> dom,
         ret |-> lastReturn,
         visible |-> isVisible, input |-> inputValue, timer |-> searchTimeout,
         ovResults |-> overlayResults, index |-> currentIndex, count |-> countText,
         pageChunks |-> pageChunks, isIndexed |-> isIndexed,
         results |-> currentResults, counter |-> chunkIdCounter,
         embReqs |-> embeddingRequests, searchReqs |-> searchRequests]

\* The program state after a handler: T is the value the handler produced
Becomes(T) ==
  /\ highlightedChunks' = T.chunks
  /\ activeHighlightId' = T.active
  /\ cssHighlights' = T.css
  /\ stylesInjected' = T.styles
  /\ dom' = T.dom
  /\ lastReturn' = T.ret
  /\ isVisible' = T.visible
  /\ inputValue' = T.input
  /\ searchTimeout' = T.timer
  /\ overlayResults' = T.ovResults
  /\ currentIndex' = T.index
  /\ countText' = T.count
  /\ pageChunks' = T.pageChunks
  /\ isIndexed' = T.isIndexed
  /\ currentResults' = T.results
  /\ chunkIdCounter' = T.counter
  /\ embeddingRequests' = T.embReqs
  /\ searchRequests' = T.searchReqs
  /\ UNCHANGED << supportsHighlightAPI, chunkSize, embeddingPipeline, modelStatus,
                  creatingOffscreen, offscreenDocument, isLoading, embeddingCache, calls >>

NoCss == (HIGHLIGHT_NAME :> <<>>) @@ (ACTIVE_HIGHLIGHT_NAME :> <<>>)

\* Map operations on the registry
regKeys(chunks) == {chunks[k].id : k \in 1..Len(chunks)}
regHas(chunks, id) == id \in regKeys(chunks)
regGet(chunks, id) ==
  (CHOOSE k \in 1..Len(chunks) : chunks[k].id = id) 
regRanges(chunks, id) == chunks[regGet(chunks, id)].ranges
regDelete(chunks, id) == SelectSeq(chunks, LAMBDA e : e.id # id)
regSet(chunks, id, ranges) ==
  IF regHas(chunks, id)
  THEN [chunks EXCEPT ![regGet(chunks, id)].ranges = ranges]
  ELSE Append(chunks, [id |-> id, ranges |-> ranges])

\* The loop over the registry: the ranges of the active entry (isActive) or of
\* all the others, in insertion order
RECURSIVE collectRanges(_, _, _)
collectRanges(chunks, active, isActive) ==
  IF chunks = <<>> THEN <<>>
  ELSE (IF (Head(chunks).id = active) = isActive THEN Head(chunks).ranges ELSE <<>>)
       \o collectRanges(Tail(chunks), active, isActive)

\* updateHighlights that renders every entry as a plain highlight, the active
\* one included (C32 tells it apart)
updateHighlightsBoth(S) ==
  IF ~supportsHighlightAPI THEN S
  ELSE [S EXCEPT !.css = (HIGHLIGHT_NAME :> collectRanges(S.chunks, NoId, FALSE))
                         @@ (ACTIVE_HIGHLIGHT_NAME :> collectRanges(S.chunks, S.active, TRUE))]

\* Update the CSS highlights registry
updateHighlights(S) ==
  IF ~supportsHighlightAPI THEN S
  ELSE [S EXCEPT !.css = (HIGHLIGHT_NAME :> collectRanges(S.chunks, S.active, FALSE))
                         @@ (ACTIVE_HIGHLIGHT_NAME :> collectRanges(S.chunks, S.active, TRUE))]

\* removeHighlight that leaves the active id as it is (C8 tells it apart)
removeHighlightKeepActive(S, chunkId) ==
  updateHighlights([S EXCEPT !.chunks = regDelete(S.chunks, chunkId)])

\* Remove highlight by chunk ID
removeHighlight(S, chunkId) ==
  updateHighlights(
    [S EXCEPT !.chunks = regDelete(S.chunks, chunkId),
              !.active = IF S.active = chunkId THEN NoId ELSE S.active])

\* clearAllHighlights that leaves CSS.highlights as it is (C9 tells it apart)
clearAllHighlightsKeepCss(S) ==
  [S EXCEPT !.chunks = <<>>,
            !.active = NoId,
            !.dom = IF supportsHighlightAPI THEN S.dom
                    ELSE [i \in 1..Len(S.dom) |-> [S.dom[i] EXCEPT !.spans = <<>>]]]

\* Remove all highlights
clearAllHighlights(S) ==
  [S EXCEPT !.chunks = <<>>,
            !.active = NoId,
            !.css = IF supportsHighlightAPI THEN NoCss ELSE S.css,
            !.dom = IF supportsHighlightAPI THEN S.dom
                    ELSE [i \in 1..Len(S.dom) |-> [S.dom[i] EXCEPT !.spans = <<>>]]]

\* setActiveHighlight without the call of updateHighlights (C7 tells it apart)
setActiveHighlightStale(S, chunkId) == [S EXCEPT !.active = chunkId]

\* Set active highlight (scrolling to it is left out)
setActiveHighlight(S, chunkId) == updateHighlights([S EXCEPT !.active = chunkId])

\* Get number of highlights
getHighlightCount(S) == Len(S.chunks)

\* A piece of text node n: its text from offset s to offset e, inside spans
piece(n, s, e, spans) == [n EXCEPT !.text = SubSeq(n.text, s + 1, e), !.spans = spans]

\* range.surroundContents(span) on text node i from offset s to offset e: the
\* node is split, the middle piece moves into the new marker element (empty
\* remainders are left out of the model: no code path reads them)
surroundContents(d, i, s, e, span) ==
  SubSeq(d, 1, i - 1)
  \o (IF s > 0 THEN <<piece(d[i], 0, s, d[i].spans)>> ELSE <<>>)
  \o <<piece(d[i], s, e, Append(d[i].spans, span))>>
  \o (IF e < Len(d[i].text) THEN <<piece(d[i], e, Len(d[i].text), d[i].spans)>> ELSE <<>>)
  \o SubSeq(d, i + 1, Len(d))

\* document.createElement('span'): an element the document does not hold yet
newSpan(d) == CHOOSE k \in 1..(Cardinality(markerSpans(d)) + 1) : k \notin markerSpans(d)

\* The range of a fallback highlight: the contents of its marker element
spanRange(span) == [sn |-> 0, so |-> 0, en |-> 0, eo |-> 0, span |-> span]

\* 'if (start < end) result.push({ node, start, end })'
pushNode(i, start, end) ==
  IF start < end THEN <<[node |-> i, start |-> start, end |-> end]>> ELSE <<>>

\* Get all text nodes within a range
RECURSIVE getTextNodesInRange(_, _, _)
getTextNodesInRange(d, range, i) ==
  IF i > range.en THEN <<>>
  ELSE pushNode(i, IF i = range.sn THEN range.so ELSE 0,
                   IF i = range.en THEN range.eo ELSE Len(d[i].text))
       \o getTextNodesInRange(d, range, i + 1)

\* The loop wrapping each text node of a cross-element range in a marker of
\* its own; acc = [dom, ranges].  The nodes are taken last first so that the
\* indices of the nodes still to wrap stay valid.
RECURSIVE wrapEach(_, _)

wrapNode(textNodes, acc, t, span) ==
  wrapEach(SubSeq(textNodes, 1, Len(textNodes) - 1),
           [dom |-> surroundContents(acc.dom, t.node, t.start, t.end, span),
            ranges |-> <<spanRange(span)>> \o acc.ranges])

wrapEach(textNodes, acc) ==
  IF textNodes = <<>> THEN acc
  ELSE wrapNode(textNodes, acc, textNodes[Len(textNodes)], newSpan(acc.dom))

\* 'if (ranges.length > 0) { highlightedChunks.set(chunkId, ranges); return true; }'
setWrapped(S, chunkId, w) ==
  IF Len(w.ranges) > 0
  THEN [S EXCEPT !.dom = w.dom, !.chunks = regSet(S.chunks, chunkId, w.ranges), !.ret = TRUE]
  ELSE [S EXCEPT !.ret = FALSE]

\* The range in one text node: one marker around it
wrapSingle(S, chunkId, range, span) ==
  [S EXCEPT !.dom = surroundContents(S.dom, range.sn, range.so, range.eo, span),
            !.chunks = regSet(S.chunks, chunkId, <<spanRange(span)>>),
            !.ret = TRUE]

\* highlightTextFallback from the range found on
wrapRange(S, chunkId, range) ==
  IF range = NoRange THEN [S EXCEPT !.ret = FALSE]
  ELSE IF range.sn = range.en THEN wrapSingle(S, chunkId, range, newSpan(S.dom))
  ELSE setWrapped(S, chunkId,
                  wrapEach(getTextNodesInRange(S.dom, range, range.sn),
                           [dom |-> S.dom, ranges |-> <<>>]))

\* Fallback for browsers without CSS Custom Highlight API
highlightTextFallback(S, chunkId, searchText) ==
  wrapRange(S, chunkId, findRangeForText(S.dom, normalizeText(searchText)))

\* highlightText from the ranges found on
setRanges(S, chunkId, ranges) ==
  IF Len(ranges) = 0 THEN [S EXCEPT !.ret = FALSE]
  ELSE [updateHighlights([S EXCEPT !.chunks = regSet(S.chunks, chunkId, ranges)])
          EXCEPT !.ret = TRUE]

\* highlightText after 'Remove existing highlight for this chunk'
highlightFresh(S, chunkId, searchText) ==
  IF ~supportsHighlightAPI THEN highlightTextFallback(S, chunkId, searchText)
  ELSE setRanges([S EXCEPT !.styles = TRUE], chunkId, findTextRanges(S.dom, searchText))

\* highlightText without 'Remove existing highlight for this chunk' (C10
\* tells it apart)
highlightTextKeep(S, chunkId, searchText) ==
  highlightFresh(S, chunkId, searchText)

\* Create a highlight for a text chunk
highlightText(S, chunkId, searchText) ==
  highlightFresh(removeHighlight(S, chunkId), chunkId, searchText)

\* ------------------------------------------------------------------------
\* Extractor and chunker
\* ------------------------------------------------------------------------
\* acceptNode of extractPageText's TreeWalker
extractAccepts(n) ==
  /\ ~(parentDisplay(n) = "none" \/ n.visibility = "hidden")
  /\ ~n.skip
  /\ Len(trim(n.text)) >= 3

\* The walk over the search root, accumulating offsets
RECURSIVE extractLoop(_, _, _, _)

\* pushText without the '+ 1' for the space between nodes (C24 tells it apart)
pushTextNoSpace(d, i, inRootOnly, currentOffset, text) ==
  <<[text |-> text, node |-> i, startOffset |-> currentOffset]>>
  \o extractLoop(d, i + 1, inRootOnly, currentOffset + Len(text))

\* 'textNodes.push({ text, node, startOffset }); currentOffset += text.length + 1'
pushText(d, i, inRootOnly, currentOffset, text) ==
  <<[text |-> text, node |-> i, startOffset |-> currentOffset]>>
  \o extractLoop(d, i + 1, inRootOnly, currentOffset + Len(text) + 1)

extractLoop(d, i, inRootOnly, currentOffset) ==
  IF i > Len(d) THEN <<>>
  ELSE IF (inRootOnly => d[i].inRoot) /\ extractAccepts(d[i])
       THEN pushText(d, i, inRootOnly, currentOffset, trim(d[i].text))
       ELSE extractLoop(d, i + 1, inRootOnly, currentOffset)

\* Extract visible text from the page
extractPageText(d) ==
  extractLoop(d, 1, \E i \in 1..Len(d) : d[i].inRoot, 0)

\* Generate unique ID for chunks: the counter part of the id
generateChunkId(counter) == counter

TextChunk(id, text, startOffset, endOffset) ==
  [id |-> id, text |-> text, startOffset |-> startOffset, endOffset |-> endOffset,
   embedding |-> FALSE]

\* The loop of chunkText; st = [chunks, text, start, last, counter]
RECURSIVE chunkLoop(_, _, _)

\* saveChunk that keeps the text of the chunk it saved (C18 tells it apart)
saveChunkKeepText(st, node, targetSize) ==
  IF Len(st.text) > 0 /\ Len(st.text) + Len(node.text) > targetSize
  THEN [st EXCEPT !.chunks = Append(@, TextChunk(generateChunkId(st.counter),
                                               trim(st.text), st.start, st.last)),
                  !.counter = @ + 1,
                  !.start = node.startOffset]
  ELSE st

\* 'If adding this would exceed target size, save current chunk'
saveChunk(st, node, targetSize) ==
  IF Len(st.text) > 0 /\ Len(st.text) + Len(node.text) > targetSize
  THEN [st EXCEPT !.chunks = Append(@, TextChunk(generateChunkId(st.counter),
                                               trim(st.text), st.start, st.last)),
                  !.counter = @ + 1,
                  !.text = <<>>,
                  !.start = node.startOffset]
  ELSE st

\* addText without 'lastOffset = startOffset + text.length' (C19 tells it
\* apart)
addTextStaleEnd(rest, targetSize, st, node) ==
  chunkLoop(rest, targetSize,
            [st EXCEPT !.start = IF Len(st.text) = 0 THEN node.startOffset ELSE @,
                       !.text = @ \o (IF Len(@) > 0 THEN <<" ">> ELSE <<>>) \o node.text])

\* The rest of one iteration: start a chunk if none is open, append the text
addText(rest, targetSize, st, node) ==
  chunkLoop(rest, targetSize,
            [st EXCEPT !.start = IF Len(st.text) = 0 THEN node.startOffset ELSE @,
                       !.text = @ \o (IF Len(@) > 0 THEN <<" ">> ELSE <<>>) \o node.text,
                       !.last = node.startOffset + Len(node.text)])

chunkLoop(textNodes, targetSize, st) ==
  IF textNodes = <<>> THEN st
  ELSE addText(Tail(textNodes), targetSize,
               saveChunk(st, Head(textNodes), targetSize), Head(textNodes))

\* lastChunk that forgets the last chunk (C22 tells it apart)
lastChunkForgotten(st) == [chunks |-> st.chunks, counter |-> st.counter]

\* 'Don't forget the last chunk'
lastChunk(st) ==
  IF Len(trim(st.text)) > 0
  THEN [chunks |-> Append(st.chunks, TextChunk(generateChunkId(st.counter),
                                               trim(st.text), st.start, st.last)),
        counter |-> st.counter + 1]
  ELSE [chunks |-> st.chunks, counter |-> st.counter]

\* chunkText with the id counter started again at 0 (C23 tells it apart)
chunkTextFromZero(textNodes, targetSize, counter) ==
  lastChunk(chunkLoop(textNodes, targetSize,
                      [chunks |-> <<>>, text |-> <<>>, start |-> 0, last |-> 0,
                       counter |-> 0]))

\* Chunk text into segments of approximately targetSize characters; the
\* result carries the chunks and the id counter after the call
chunkText(textNodes, targetSize, counter) ==
  lastChunk(chunkLoop(textNodes, targetSize,
                      [chunks |-> <<>>, text |-> <<>>, start |-> 0, last |-> 0,
                       counter |-> counter]))

\* ------------------------------------------------------------------------
\* Overlay
\* ------------------------------------------------------------------------
NoQuery == <<"\n">>      \* an indexPage call whose result nobody awaits

\* Handle navigation between results
handleNavigate(S, index) ==
  IF index < 0 \/ index >= Len(S.results) THEN S
  ELSE setActiveHighlight(S, S.results[index + 1].id)

\* Handle overlay close
handleClose(S) == clearAllHighlights(S)

show(S) == [S EXCEPT !.visible = TRUE]

hide(S) == handleClose([S EXCEPT !.visible = FALSE])

toggle(S) == IF S.visible THEN hide(S) ELSE show(S)

\* 'this.onNavigate?.(this.currentIndex)'
onNavigate(S) == handleNavigate(S, S.index)

\* updateResults (the summary request is left out: aiSummaryEnabled is off)
updateResults(S, results) ==
  IF Len(results) > 0
  THEN onNavigate([S EXCEPT !.ovResults = results, !.index = 0,
                            !.count = <<1, Len(results)>>])
  ELSE [S EXCEPT !.ovResults = results, !.index = 0, !.count = <<>>]

updateNavigationUI(S) ==
  IF Len(S.ovResults) > 0
  THEN [S EXCEPT !.count = <<S.index + 1, Len(S.ovResults)>>]
  ELSE S

navigateNext(S) ==
  IF Len(S.ovResults) = 0 THEN S
  ELSE onNavigate(updateNavigationUI([S EXCEPT !.index = (S.index + 1) % Len(S.ovResults)]))

\* navigatePrev without the wrap-around at the first result (C29 tells it apart)
navigatePrevNoWrap(S) ==
  IF Len(S.ovResults) = 0 THEN S
  ELSE onNavigate(updateNavigationUI(
         [S EXCEPT !.index = IF S.index = 0 THEN 0 ELSE S.index - 1]))

navigatePrev(S) ==
  IF Len(S.ovResults) = 0 THEN S
  ELSE onNavigate(updateNavigationUI(
         [S EXCEPT !.index = (S.index - 1 + Len(S.ovResults)) % Len(S.ovResults)]))

\* ------------------------------------------------------------------------
\* Content script
\* ------------------------------------------------------------------------
\* handleSearch from 'Searching...' to the await of the SEARCH_QUERY response
sendSearchQuery(S, query) ==
  [S EXCEPT !.searchReqs = bagAdd(@, [query |-> query, chunks |-> S.pageChunks])]

\* afterIndexPage that sends the search whatever indexPage returned (C38
\* tells it apart)
afterIndexPageAlways(S, caller, indexed) ==
  IF caller = NoQuery THEN S
  ELSE sendSearchQuery(S, caller)

\* What the caller of indexPage does with its result: the overlay toggle
\* ignores it, handleSearch goes on
afterIndexPage(S, caller, indexed) ==
  IF caller = NoQuery THEN S
  ELSE IF indexed THEN sendSearchQuery(S, caller)
  ELSE updateResults(S, <<>>)

\* indexPage from the chunks on, up to the await of the GET_EMBEDDINGS response
sendGetEmbeddings(S, caller, c) ==
  IF Len(c.chunks) = 0
  THEN afterIndexPage([S EXCEPT !.pageChunks = c.chunks, !.counter = c.counter],
                      caller, FALSE)
  ELSE [S EXCEPT !.pageChunks = c.chunks, !.counter = c.counter,
                 !.embReqs = bagAdd(@, [chunks |-> c.chunks, caller |-> caller])]

\* indexPage up to the await of the GET_EMBEDDINGS response
indexPage(S, caller) ==
  IF S.isIndexed /\ Len(S.pageChunks) > 0 THEN afterIndexPage(S, caller, TRUE)
  ELSE sendGetEmbeddings(S, caller,
                         chunkText(extractPageText(S.dom),
                                   IF chunkSize # 0 THEN chunkSize ELSE 200, S.counter))

\* The service worker's answer to GET_EMBEDDINGS: every chunk with its embedding
withEmbeddings(chunks) == [i \in 1..Len(chunks) |-> [chunks[i] EXCEPT !.embedding = TRUE]]

\* indexPage from the GET_EMBEDDINGS response on; kind is "ok" (success) or
\* "fail" (success: false, or sendMessage rejected: both return false)
indexPageResume(S, req, kind) ==
  IF kind = "ok"
  THEN afterIndexPage([S EXCEPT !.pageChunks = withEmbeddings(req.chunks),
                                !.isIndexed = TRUE],
                      req.caller, TRUE)
  ELSE afterIndexPage(S, req.caller, FALSE)

\* Handle search query, up to its first await on a message
handleSearch(S, query) ==
  IF ~S.isIndexed THEN indexPage(S, query)
  ELSE sendSearchQuery(S, query)

\* 'const success = highlightText(...); if (success) highlightedCount++',
\* with the ids of the successful calls in place of their number
countSuccess(L, T, id) ==
  [page |-> T, ok |-> IF T.ret THEN L.ok \cup {id} ELSE L.ok \ {id}]

\* The loop highlighting every result; L = [page, ok]: the program state and
\* the ids for which highlightText returned true
RECURSIVE highlightResults(_, _)
highlightResults(L, results) ==
  IF results = <<>> THEN L
  ELSE highlightResults(
         countSuccess(L, highlightText(L.page, Head(results).id, Head(results).text),
                      Head(results).id),
         Tail(results))

\* 'updateResults(currentResults)' at the end of handleSearch
showResults(L, results) == [L EXCEPT !.page = updateResults(@, results)]

\* handleSearchResume without the call of clearAllHighlights (C5 tells it apart)
handleSearchResumeNoClear(S, kind, results) ==
  IF kind = "ok"
  THEN showResults(highlightResults([page |-> [S EXCEPT !.results = results], ok |-> {}],
                                    results),
                   results)
  ELSE [page |-> updateResults(S, <<>>), ok |-> {}]

\* handleSearch from the SEARCH_QUERY response on; kind is "ok" (success) or
\* "fail" (success: false, or sendMessage rejected: both show no results).
\* The result is [page, ok]: the program state, and the ids for which
\* highlightText returned true.
handleSearchResume(S, kind, results) ==
  IF kind = "ok"
  THEN showResults(
         highlightResults([page |-> clearAllHighlights([S EXCEPT !.results = results]),
                           ok |-> {}],
                          results),
         results)
  ELSE [page |-> updateResults(S, <<>>), ok |-> {}]

\* The debounce timer's callback from the trimmed query on
search(S, query) ==
  IF Len(query) >= 2 THEN handleSearch(S, query)
  ELSE updateResults(S, <<>>)

\* The debounce timer's callback
onDebounce(S) == search([S EXCEPT !.timer = FALSE], trim(S.input))

\* The input listener: (re)arm the debounce timer
onInput(S, value) == [S EXCEPT !.input = value, !.timer = TRUE]

\* indexPage() if the overlay is now visible
indexIfVisible(S) == IF S.visible THEN indexPage(S, NoQuery) ELSE S

\* The TOGGLE_OVERLAY message listener
onToggleOverlay(S) == indexIfVisible(toggle(S))

\* ------------------------------------------------------------------------
\* Inputs
\* ------------------------------------------------------------------------
\* Search texts handed to highlightText by a caller of the highlighter API
Texts ==
  { <<"A", "b", "c">>,                                  \* in both documents
    <<"a", "b">>,                                       \* below the 3-character floor
    <<"c", "b", "a">>,                                  \* in no document
    <<"f", "\n", "g", "h", "i">>,                       \* spans two text nodes
    <<"g", "h", "i", " ", "a", "b", "c", " ", "a", "b", "c", " ", "q">> }  \* found by its first 3 words only

\* Search texts located in the documents of LocDocs
LocTexts ==
  Texts \cup
  { <<>>,                                               \* empty
    <<"d", "e", " ", "f">>,                             \* in a node with leading whitespace
    <<"x", "y", "z">>,                                  \* in the <nav> only
    <<"c", "d", " ", "e">>,                             \* outside the content root only
    <<" ", "a", "b", "c", "\n">>,                       \* padded with whitespace
    <<"q", " ", "A", "B", "C", " ", " ", "a", "b", "c">>,   \* spans two text nodes, upper case
    <<"b", "c", " ", "x", "y", "z", " ", "d", "e", " ", "q">>,   \* found by its first 3 words, in three text nodes
    SubSeq(LongText, 1, 100) \o <<"#", "#">>,            \* found by its first 100 characters
    SubSeq(LongText, 1, 60) \o <<"#", "#">>,             \* found by its first 60 characters
    SubSeq(LongText, 1, 40) \o <<"#", "#">>,             \* found by its first 40 characters
    SubSeq(LongText, 1, 16) \o <<"#">>,                  \* found by its first 8 words
    SubSeq(LongText, 1, 10) \o <<"#", " ", "f">>,        \* found by its first 5 words
    SubSeq(LongText, 1, 6) \o <<"#", " ", "d">> }        \* found by its first 3 words

\* The text nodes of the pages handed to the chunker: one long enough, one
\* with whitespace around and inside, one longer, one the Extractor rejects
FragTexts ==
  { <<"a", "b", "c">>,
    <<" ", "d", "e", " ", " ", "f">>,
    <<"g", "h", "i", "j">>,
    <<"a", "b">> }

\* Pages of up to n paragraphs
RECURSIVE pagesOf(_)
pagesOf(n) ==
  IF n = 0 THEN {<<>>}
  ELSE pagesOf(n - 1) \cup
       {Append(d, P(t)) : d \in {x \in pagesOf(n - 1) : Len(x) = n - 1}, t \in FragTexts}

ChunkDocs == pagesOf(MaxFragments)

\* The targetSize arguments of chunkText
TargetSizes == -1..MaxTargetSize

\* What the user types into the search box
Queries == { <<"a", " ">>, <<"a", "b", " ">> }

\* settings.chunkSize of a page session
ChunkSizes == {6}

\* The results a SEARCH_QUERY response may carry: up to MaxResults of the
\* request's embedded chunks, in any order, none twice
RECURSIVE pickResults(_, _)

moreResults(chunks, n, shorter) ==
  shorter \cup
  {Append(r, chunks[i]) : r \in {x \in shorter : Len(x) = n - 1},
                          i \in {j \in 1..Len(chunks) : chunks[j].embedding}}

pickResults(chunks, n) ==
  IF n = 0 THEN {<<>>} ELSE moreResults(chunks, n, pickResults(chunks, n - 1))

searchResults(chunks) ==
  {r \in pickResults(chunks, MaxResults) :
     \A i, j \in 1..Len(r) : i # j => r[i].id # r[j].id}

\* The model's bounds on a state of a page session
Within(T) ==
  /\ bagSize(T.embReqs) + bagSize(T.searchReqs) <= MaxInFlight
  /\ T.counter <= MaxIssuedIds

\* ------------------------------------------------------------------------
\* History
\* ------------------------------------------------------------------------
\* lastOp of a step that is no call of the highlighter's exported functions
PageOp == [op |-> "page", id |-> NoId, before |-> NoId, known |-> FALSE, count |-> 0]

\* ------------------------------------------------------------------------
\* Initial states
\* ------------------------------------------------------------------------
\* The service worker and the offscreen document when the browser starts
\* them: no offscreen document, nothing loading, nothing cached, no call
InitWorker ==
  /\ creatingOffscreen = "null"
  /\ offscreenDocument = [exists |-> FALSE, creating |-> FALSE, refusing |-> FALSE]
  /\ isLoading = FALSE
  /\ embeddingCache = <<>>
  /\ calls = <<>>

InitPage ==
  /\ supportsHighlightAPI \in BOOLEAN
  /\ highlightedChunks = <<>>
  /\ activeHighlightId = NoId
  /\ cssHighlights = NoCss
  /\ stylesInjected = FALSE
  /\ lastReturn = FALSE
  /\ isVisible = FALSE
  /\ inputValue = <<>>
  /\ searchTimeout = FALSE
  /\ overlayResults = <<>>
  /\ currentIndex = 0
  /\ countText = <<>>
  /\ pageChunks = <<>>
  /\ isIndexed = FALSE
  /\ currentResults = <<>>
  /\ chunkIdCounter = 0
  /\ embeddingRequests = NoRequests
  /\ searchRequests = NoRequests
  /\ embeddingPipeline = FALSE
  /\ modelStatus = "idle"
  /\ InitWorker
  /\ okIds = {}
  /\ lastBatch = {}
  /\ staleDropped = FALSE
  /\ lastOp = PageOp

\* A page session: the content script after init(), on an article page
Init ==
  /\ InitPage
  /\ dom = DocPage
  /\ chunkSize \in ChunkSizes

\* The highlighter driven through its exported functions
InitHL ==
  /\ InitPage
  /\ dom \in Docs
  /\ chunkSize = 200

\* ------------------------------------------------------------------------
\* Actions of a page session
\* ------------------------------------------------------------------------
\* A handler of the page session produced T
PageStep(T) ==
  /\ Within(T)
  /\ Becomes(T)
  /\ lastOp' = PageOp

\* The handler called neither highlightText nor clearAllHighlights
HistoryKept == UNCHANGED << okIds, lastBatch, staleDropped >>

\* The handler called clearAllHighlights (and not highlightText)
HistoryCleared ==
  /\ okIds' = {}
  /\ lastBatch' = {}
  /\ staleDropped' = FALSE

\* The service worker delivers TOGGLE_OVERLAY (keyboard shortcut)
ToggleOverlay ==
  \E T \in {onToggleOverlay(Page)} :
    /\ PageStep(T)
    /\ IF isVisible THEN HistoryCleared ELSE HistoryKept

\* The user edits the search box
TypeInput ==
  \E value \in Queries :
    /\ isVisible
    /\ value # inputValue
    /\ PageStep(onInput(Page, value))
    /\ HistoryKept

\* The debounce timer fires
DebounceFires ==
  /\ searchTimeout
  /\ \E T \in {onDebounce(Page)} : PageStep(T)
  /\ HistoryKept

\* Enter or the next button
NavigateNext ==
  /\ isVisible
  /\ \E T \in {navigateNext(Page)} : PageStep(T)
  /\ HistoryKept

\* Shift+Enter or the previous button
NavigatePrev ==
  /\ isVisible
  /\ \E T \in {navigatePrev(Page)} : PageStep(T)
  /\ HistoryKept

\* Escape or the close button
CloseOverlay ==
  /\ isVisible
  /\ \E T \in {hide(Page)} : PageStep(T)
  /\ HistoryCleared

\* The response to one of the pending GET_EMBEDDINGS requests arrives
EmbeddingsResponse ==
  \E req \in DOMAIN embeddingRequests, kind \in {"ok", "fail"} :
    /\ \E T \in {indexPageResume([Page EXCEPT !.embReqs = bagRemove(@, req)], req, kind)} :
         PageStep(T)
    /\ HistoryKept

\* The history after a search response was processed: batch holds the ids it
\* registered
SearchHistory(kind, batch) ==
  /\ okIds' = IF kind = "ok" THEN batch ELSE okIds
  /\ lastBatch' = IF kind = "ok" THEN batch ELSE lastBatch
  /\ staleDropped' = IF kind = "ok" THEN regKeys(highlightedChunks) \ batch # {}
                     ELSE staleDropped
  /\ lastOp' = PageOp

\* A search response with the given results is processed from state S
SearchArrives(S, kind, results) ==
  \E L \in {handleSearchResume(S, kind, results)} :
    /\ Within(L.page)
    /\ Becomes(L.page)
    /\ SearchHistory(kind, L.ok)

\* The response to one of the pending SEARCH_QUERY requests arrives
SearchResponse ==
  \E req \in DOMAIN searchRequests, kind \in {"ok", "fail"} :
    \E results \in IF kind = "ok" THEN searchResults(req.chunks) ELSE {<<>>} :
      \E S \in {[Page EXCEPT !.searchReqs = bagRemove(@, req)]} :
        SearchArrives(S, kind, results)

Next ==
  \/ ToggleOverlay
  \/ TypeInput
  \/ DebounceFires
  \/ NavigateNext
  \/ NavigatePrev
  \/ CloseOverlay
  \/ EmbeddingsResponse
  \/ SearchResponse

Spec == Init /\ [][Next]_vars

\* ------------------------------------------------------------------------
\* Actions of a caller of the highlighter's exported functions
\* ------------------------------------------------------------------------
ApiIds == 0..MaxChunkId

\* A call op(id): lastOp records the call, the active id before it, whether
\* id was in the registry before it and getHighlightCount() before it
ApiStep(T, op, id) ==
  /\ Cardinality(markerSpans(T.dom)) <= MaxSpans
  /\ Becomes(T)
  /\ lastOp' = [op |-> op, id |-> id, before |-> activeHighlightId,
                known |-> regHas(highlightedChunks, id),
                count |-> Len(highlightedChunks)]
  /\ UNCHANGED << lastBatch, staleDropped >>

CallHighlightText ==
  \E id \in ApiIds, text \in Texts :
    \E T \in {highlightText(Page, id, text)} :
      /\ ApiStep(T, "highlightText", id)
      /\ okIds' = IF T.ret THEN okIds \cup {id} ELSE okIds \ {id}

CallRemoveHighlight ==
  \E id \in ApiIds :
    /\ \E T \in {removeHighlight(Page, id)} : ApiStep(T, "removeHighlight", id)
    /\ okIds' = okIds \ {id}

CallSetActiveHighlight ==
  \E id \in ApiIds :
    /\ \E T \in {setActiveHighlight(Page, id)} : ApiStep(T, "setActiveHighlight", id)
    /\ UNCHANGED okIds

CallClearAllHighlights ==
  /\ \E T \in {clearAllHighlights(Page)} : ApiStep(T, "clearAllHighlights", NoId)
  /\ okIds' = {}

NextHL ==
  \/ CallHighlightText
  \/ CallRemoveHighlight
  \/ CallSetActiveHighlight
  \/ CallClearAllHighlights

SpecHL == InitHL /\ [][NextHL]_vars

\* ------------------------------------------------------------------------
\* Actions of a test of highlightText: a document is loaded, a text is located
\* ------------------------------------------------------------------------
\* A freshly loaded document
InitLoc ==
  /\ InitPage
  /\ dom \in LocDocs
  /\ chunkSize = 200

\* beforeEach: 'document.body.innerHTML = ...; clearAllHighlights()'
beforeEach(S, d) == clearAllHighlights([S EXCEPT !.dom = d])

\* lastOp of a highlightText(id, text) call in a test: as in ApiStep, with
\* the text searched for
LocOp(id, text) ==
  [op |-> "highlightText", id |-> id, text |-> text, before |-> activeHighlightId,
   known |-> regHas(highlightedChunks, id), count |-> Len(highlightedChunks)]

LoadDocument ==
  \E d \in LocDocs :
    /\ lastOp.op # "beforeEach"
    /\ Becomes(beforeEach(Page, d))
    /\ lastOp' = [op |-> "beforeEach", id |-> NoId, before |-> activeHighlightId,
                  known |-> FALSE, count |-> Len(highlightedChunks)]
    /\ okIds' = {}
    /\ UNCHANGED << lastBatch, staleDropped >>

LocateText ==
  \E id \in ApiIds, text \in LocTexts :
    /\ highlightedChunks = <<>>
    /\ markerSpans(dom) = {}
    /\ \E T \in {highlightText(Page, id, text)} :
         /\ Becomes(T)
         /\ okIds' = IF T.ret THEN {id} ELSE {}
    /\ lastOp' = LocOp(id, text)
    /\ UNCHANGED << lastBatch, staleDropped >>

NextLoc ==
  \/ LoadDocument
  \/ LocateText

SpecLoc == InitLoc /\ [][NextLoc]_vars

\* ------------------------------------------------------------------------
\* Actions of a test of chunkText: the fragments of a page are chunked
\* ------------------------------------------------------------------------
InitChunk ==
  /\ InitPage
  /\ dom \in ChunkDocs
  /\ chunkSize = 200

\* 'const chunks = chunkText(textNodes, targetSize)': c is what the call
\* returns
CallChunkText(textNodes, targetSize, c) ==
  /\ pageChunks' = c.chunks
  /\ chunkIdCounter' = c.counter
  /\ lastOp' = [op |-> "chunkText", textNodes |-> textNodes, targetSize |-> targetSize]
  /\ UNCHANGED << supportsHighlightAPI, highlightedChunks, activeHighlightId,
                  cssHighlights, stylesInjected, dom, lastReturn, isVisible,
                  inputValue, searchTimeout, overlayResults, currentIndex, countText,
                  chunkSize, isIndexed, currentResults, embeddingRequests,
                  searchRequests, okIds, lastBatch, staleDropped,
                  embeddingPipeline, modelStatus,
                  creatingOffscreen, offscreenDocument, isLoading, embeddingCache, calls >>

ChunkPage ==
  \E targetSize \in TargetSizes :
    /\ lastOp.op # "chunkText"
    /\ \E textNodes \in {extractPageText(dom)} :
         \E c \in {chunkText(textNodes, targetSize, chunkIdCounter)} :
           CallChunkText(textNodes, targetSize, c)

NextChunk == ChunkPage

SpecChunk == InitChunk /\ [][NextChunk]_vars

\* ------------------------------------------------------------------------
\* Actions of the overlay's result navigation: search responses arrive on an
\* indexed page, the user steps through the results
\* ------------------------------------------------------------------------
\* <p>abc</p><p> de  f</p><p>ghij</p>
NavPage ==
  << P(<<"a", "b", "c">>), P(<<" ", "d", "e", " ", " ", "f">>), P(<<"g", "h", "i", "j">>) >>

\* The page's chunks after indexPage succeeded with chunkSize 1: one chunk
\* for each text node
NavChunks == withEmbeddings(chunkText(extractPageText(NavPage), 1, 0).chunks)

\* The results a SEARCH_QUERY response may carry: up to MaxNavResults of the
\* page's chunks, in any order, none twice
NavResults ==
  {r \in pickResults(NavChunks, MaxNavResults) :
     \A i, j \in 1..Len(r) : i # j => r[i].id # r[j].id}

\* The content script with the overlay open, after indexPage succeeded
InitNav ==
  /\ supportsHighlightAPI \in BOOLEAN
  /\ highlightedChunks = <<>>
  /\ activeHighlightId = NoId
  /\ cssHighlights = NoCss
  /\ stylesInjected = FALSE
  /\ dom = NavPage
  /\ lastReturn = FALSE
  /\ isVisible = TRUE
  /\ inputValue = <<>>
  /\ searchTimeout = FALSE
  /\ overlayResults = <<>>
  /\ currentIndex = 0
  /\ countText = <<>>
  /\ chunkSize = 1
  /\ pageChunks = NavChunks
  /\ isIndexed = TRUE
  /\ currentResults = <<>>
  /\ chunkIdCounter = Len(NavChunks)
  /\ embeddingRequests = NoRequests
  /\ searchRequests = NoRequests
  /\ embeddingPipeline = FALSE
  /\ modelStatus = "idle"
  /\ InitWorker
  /\ okIds = {}
  /\ lastBatch = {}
  /\ staleDropped = FALSE
  /\ lastOp = [op |-> "init", index |-> 0]

\* A handler of the overlay produced T; lastOp names the handler and keeps
\* currentIndex as it was before
NavStep(T, op) ==
  /\ Becomes(T)
  /\ lastOp' = [op |-> op, index |-> currentIndex]
  /\ UNCHANGED << okIds, lastBatch, staleDropped >>

\* A SEARCH_QUERY response is processed: handleSearch ends with updateResults
NavUpdateResults ==
  \E kind \in {"ok", "fail"} :
    \E results \in IF kind = "ok" THEN NavResults ELSE {<<>>} :
      \E L \in {handleSearchResume(Page, kind, results)} :
        NavStep(L.page, "updateResults")

\* Enter or the next button
NavNext == \E T \in {navigateNext(Page)} : NavStep(T, "navigateNext")

\* Shift+Enter or the previous button
NavPrev == \E T \in {navigatePrev(Page)} : NavStep(T, "navigatePrev")

NextNav ==
  \/ NavUpdateResults
  \/ NavNext
  \/ NavPrev

SpecNav == InitNav /\ [][NextNav]_vars

\* ------------------------------------------------------------------------
\* Embedding provider
\* ------------------------------------------------------------------------
Null == <<"null">>

\* 'Array.from(output.data)': the vector the pipeline computes for text
embeddingOf(text) == <<"vector", text>>

\* loadEmbeddingModel; ok: pipeline(...) resolves (or throws). M is
\* [pipeline, status]; the result adds what the call returns. A call that
\* finds modelStatus 'loading' waits for the load in progress and returns
\* as that load does, so a load and its waiters are one step here.
loadEmbeddingModel(M, ok) ==
  IF M.pipeline THEN [pipeline |-> TRUE, status |-> M.status, loaded |-> TRUE]
  ELSE IF ok THEN [pipeline |-> TRUE, status |-> "ready", loaded |-> TRUE]
  ELSE [pipeline |-> FALSE, status |-> "error", loaded |-> FALSE]

\* 'const batchSize = 32'
batchSize == 32

\* One element of 'batch.map(async (text) => ...)': the vector, or null when
\* the pipeline throws for this text
embedText(text, throws) == IF throws THEN Null ELSE embeddingOf(text)

\* 'await Promise.all(batch.map(...))' for batch = texts.slice(i, i + batchSize);
\* failed holds the positions (from 1) of the texts the pipeline throws for
embedBatch(texts, failed, i) ==
  [k \in 1..Min(batchSize, Len(texts) - i) |->
     embedText(texts[i + k], (i + k) \in failed)]

RECURSIVE generateLoop(_, _, _, _)

\* generateLoop that keeps the outputs of the last batch only (C30 tells it apart)
generateLoopLastBatch(texts, failed, i, results) ==
  IF i >= Len(texts) THEN results
  ELSE generateLoop(texts, failed, i + batchSize, embedBatch(texts, failed, i))

\* 'for (let i = 0; i < texts.length; i += batchSize) { ...; results.push(...outputs) }'
generateLoop(texts, failed, i, results) ==
  IF i >= Len(texts) THEN results
  ELSE generateLoop(texts, failed, i + batchSize, results \o embedBatch(texts, failed, i))

\* generateEmbeddings after its loadEmbeddingModel call, which returned loaded
generateEmbeddings(texts, loaded, failed) ==
  IF ~loaded THEN [i \in 1..Len(texts) |-> Null]
  ELSE generateLoop(texts, failed, 0, <<>>)

\* ------------------------------------------------------------------------
\* Actions of the embedding provider: generateEmbeddings is called
\* ------------------------------------------------------------------------
\* The numbers of texts of a call: none, few, and around the batch size
TextCounts == {n \in 0..MaxTexts : n % batchSize \in {0, 1, 2, batchSize - 1}}

\* n texts, neighbours different
someTexts(n) ==
  [i \in 1..n |-> CASE i % 3 = 0 -> <<"a", "b", "c">>
                    [] i % 3 = 1 -> <<"d", "e", " ", "f">>
                    [] OTHER -> <<"g", "h", "i", "j">>]

\* The positions the pipeline may throw for: the first two texts and the two
\* around the end of the first batch
FailedSets(n) == SUBSET ({1, 2, batchSize, batchSize + 1} \cap 1..n)

\* The service worker before the first GET_EMBEDDINGS message
InitEmbed ==
  /\ InitPage
  /\ dom = DocPage
  /\ chunkSize = 200

\* 'const embeddings = await generateEmbeddings(texts)'; M is what
\* loadEmbeddingModel made of the provider's state
CallGenerateEmbeddings(texts, failed, M) ==
  /\ embeddingPipeline' = M.pipeline
  /\ modelStatus' = M.status
  /\ lastReturn' = generateEmbeddings(texts, M.loaded, failed)
  /\ lastOp' = [op |-> "generateEmbeddings", texts |-> texts, failed |-> failed,
                loaded |-> M.loaded]
  /\ UNCHANGED << supportsHighlightAPI, highlightedChunks, activeHighlightId,
                  cssHighlights, stylesInjected, dom, isVisible,
                  inputValue, searchTimeout, overlayResults, currentIndex, countText,
                  chunkSize, pageChunks, isIndexed, currentResults, chunkIdCounter,
                  embeddingRequests, searchRequests, okIds, lastBatch, staleDropped,
                  creatingOffscreen, offscreenDocument, isLoading, embeddingCache, calls >>

\* A GET_EMBEDDINGS message is served; an unloaded model loads or fails to
GenerateEmbeddings ==
  \E n \in TextCounts, ok \in BOOLEAN :
    \E failed \in FailedSets(n) :
      /\ embeddingPipeline => ok
      /\ \E M \in {loadEmbeddingModel([pipeline |-> embeddingPipeline,
                                       status |-> modelStatus], ok)} :
           CallGenerateEmbeddings(someTexts(n), failed, M)

NextEmbed == GenerateEmbeddings

SpecEmbed == InitEmbed /\ [][NextEmbed]_vars

\* ------------------------------------------------------------------------
\* Similarity
\* ------------------------------------------------------------------------
\* Vectors have integer components here (cosine similarity does not change
\* when a vector is scaled: [0.9, 0.1, 0] is <<9, 1, 0>>). A number that
\* cosineSimilarity returns is kept exactly, as [num, den2] for
\* num / sqrt(den2); [num |-> 0, den2 |-> 0] is NaN.
Zero == [num |-> 0, den2 |-> 1]
NaN == [num |-> 0, den2 |-> 0]

\* x >= y for two numbers that are not NaN
scoreGE(x, y) ==
  IF x.num >= 0 /\ y.num <= 0 THEN TRUE
  ELSE IF x.num < 0 /\ y.num >= 0 THEN FALSE
  ELSE IF x.num >= 0 THEN x.num * x.num * y.den2 >= y.num * y.num * x.den2
  ELSE x.num * x.num * y.den2 <= y.num * y.num * x.den2

\* 'for (let i = 0; i < a.length; i++) { dotProduct += a[i] * b[i]; ... }'
\* from position i on: also normA for b = a and normB for a = b
RECURSIVE sumProducts(_, _, _)
sumProducts(a, b, i) ==
  IF i > Len(a) THEN 0 ELSE a[i] * b[i] + sumProducts(a, b, i + 1)

\* norms without the 'return 0' for a norm of 0: 0 / 0 (C28 tells it apart)
normsNoZeroCheck(dotProduct, normA, normB) ==
  IF normA * normB = 0 THEN NaN ELSE [num |-> dotProduct, den2 |-> normA * normB]

\* cosineSimilarity from 'normA = Math.sqrt(normA)' on; normA and normB are
\* the sums of squares
norms(dotProduct, normA, normB) ==
  IF normA = 0 \/ normB = 0 THEN Zero
  ELSE [num |-> dotProduct, den2 |-> normA * normB]

\* What a call gives: a value, or the error it throws
Returns(value) == [error |-> FALSE, value |-> value]
Throws(message) == [error |-> TRUE, value |-> message]

\* cosineSimilarity without the check of the lengths; a component b lacks is
\* undefined and makes the sum NaN (C27 tells it apart)
cosineSimilarityNoThrow(a, b) ==
  IF Len(a) > Len(b) THEN Returns(NaN)
  ELSE Returns(norms(sumProducts(a, b, 1), sumProducts(a, a, 1), sumProducts(b, b, 1)))

cosineSimilarity(a, b) ==
  IF Len(a) # Len(b) THEN Throws("Vectors must have the same length")
  ELSE Returns(norms(sumProducts(a, b, 1), sumProducts(a, a, 1), sumProducts(b, b, 1)))

\* 'chunks.map((chunk, index) => ({ index, score: cosineSimilarity(...) }))';
\* chunks holds the chunks' embeddings; score is what the call gave
scoresOf(queryEmbedding, chunks) ==
  [i \in 1..Len(chunks) |->
     [index |-> i - 1, score |-> cosineSimilarity(queryEmbedding, chunks[i])]]

\* '.filter((item) => item.score >= threshold)', strictly (C25 tells it apart)
filterAbove(scores, threshold) ==
  SelectSeq(scores, LAMBDA item : ~scoreGE(threshold, item.score.value))

\* '.filter((item) => item.score >= threshold)'
filterScores(scores, threshold) ==
  SelectSeq(scores, LAMBDA item : scoreGE(item.score.value, threshold))

\* insertItem that puts the item before those of the same score (C26 tells it apart)
insertItemFirst(sorted, item) ==
  SelectSeq(sorted, LAMBDA e : ~scoreGE(item.score.value, e.score.value))
  \o <<item>>
  \o SelectSeq(sorted, LAMBDA e : scoreGE(item.score.value, e.score.value))

\* One step of the stable sort: the item goes behind the items it is not
\* to precede ('b.score - a.score' is not negative for them)
insertItem(sorted, item) ==
  SelectSeq(sorted, LAMBDA e : scoreGE(e.score.value, item.score.value))
  \o <<item>>
  \o SelectSeq(sorted, LAMBDA e : ~scoreGE(e.score.value, item.score.value))

\* '.sort((a, b) => b.score - a.score)': Array.prototype.sort is stable
\* (ECMAScript 2019), the items are taken in their order
RECURSIVE sortScores(_)
sortScores(items) ==
  IF items = <<>> THEN <<>>
  ELSE insertItem(sortScores(SubSeq(items, 1, Len(items) - 1)), items[Len(items)])

\* '.slice(0, k)' for k >= 0
slice0(items, k) == SubSeq(items, 1, Min(k, Len(items)))

\* The items as the caller sees them: score is the number
itemsOf(items) ==
  [i \in 1..Len(items) |-> [index |-> items[i].index, score |-> items[i].score.value]]

\* findTopKSimilar from the scores on: a cosineSimilarity call that throws
\* ends the call
topOf(scores, k, threshold) ==
  IF \E i \in 1..Len(scores) : scores[i].score.error
  THEN Throws("Vectors must have the same length")
  ELSE Returns(itemsOf(slice0(sortScores(filterScores(scores, threshold)), k)))

findTopKSimilar(queryEmbedding, chunks, k, threshold) ==
  topOf(scoresOf(queryEmbedding, chunks), k, threshold)

\* ------------------------------------------------------------------------
\* Actions of a test of the similarity functions: one call
\* ------------------------------------------------------------------------
\* The chunks' embeddings: those of the tests, an all-zero one, one of
\* another length and an empty one
Embeddings ==
  { <<1, 0, 0>>, <<0, 1, 0>>, <<9, 1, 0>>, <<5, 5, 0>>, <<-1, 0, 0>>,
    <<0, 0, 0>>, <<1, 0>>, <<>> }

QueryEmbeddings == { <<1, 0, 0>>, <<5, 5, 0>>, <<0, 0, 0>>, <<>> }

\* threshold: -1, 0 (the default) and 0.8
Thresholds == { [num |-> -1, den2 |-> 1], Zero, [num |-> 4, den2 |-> 25] }

\* Lists of up to n embeddings
RECURSIVE embeddingLists(_)
embeddingLists(n) ==
  IF n = 0 THEN {<<>>}
  ELSE embeddingLists(n - 1) \cup
       {Append(c, e) : c \in {x \in embeddingLists(n - 1) : Len(x) = n - 1},
                       e \in Embeddings}

\* ------------------------------------------------------------------------
\* Service worker: SEARCH_QUERY
\* ------------------------------------------------------------------------
\* '.slice(0, 20)'
SearchLimit == 20

\* A chunk of a SEARCH_QUERY request; embedded = FALSE is
\* 'embedding: undefined'
SearchChunk(id, e) == [id |-> id, embedded |-> e.embedded, embedding |-> e.embedding]

\* What handleSearchQuery returns
SearchSucceeded(results) == [success |-> TRUE, results |-> results, error |-> ""]
SearchFailed(error) == [success |-> FALSE, results |-> <<>>, error |-> error]

\* '.filter((chunk) => chunk.embedding)'
embeddedChunks(chunks) == SelectSeq(chunks, LAMBDA chunk : chunk.embedded)

\* '.map((chunk) => ({ chunk, score: cosineSimilarity(...), highlighted: false }))';
\* score is what the call gave
scoredChunks(queryEmbedding, chunks) ==
  [i \in 1..Len(chunks) |->
     [chunk |-> chunks[i],
      score |-> cosineSimilarity(queryEmbedding, chunks[i].embedding),
      highlighted |-> FALSE]]

\* The results as the caller sees them: score is the number
resultsOf(items) ==
  [i \in 1..Len(items) |-> [items[i] EXCEPT !.score = items[i].score.value]]

\* rankResults that cuts the list before it filters and sorts (C35 tells it
\* apart)
rankResultsCutFirst(scored, threshold) ==
  IF \E i \in 1..Len(scored) : scored[i].score.error
  THEN SearchFailed("Error: Vectors must have the same length")
  ELSE SearchSucceeded(
         resultsOf(sortScores(filterScores(slice0(scored, SearchLimit), threshold))))

\* handleSearchQuery from the scores on: a cosineSimilarity call that throws
\* is caught
rankResults(scored, threshold) ==
  IF \E i \in 1..Len(scored) : scored[i].score.error
  THEN SearchFailed("Error: Vectors must have the same length")
  ELSE SearchSucceeded(
         resultsOf(slice0(sortScores(filterScores(scored, threshold)), SearchLimit)))

\* handleSearchQuery from the offscreen document's response on; response is
\* [isNull, embedding], settings is [similarityThreshold]
handleSearchQuery(response, chunks, settings) ==
  IF response.isNull THEN SearchFailed("Failed to generate query embedding")
  ELSE rankResults(scoredChunks(response.embedding, embeddedChunks(chunks)),
                   settings.similarityThreshold)

\* The offscreen document's responses to GENERATE_EMBEDDING
QueryResponses ==
  {[isNull |-> FALSE, embedding |-> e] : e \in QueryEmbeddings}
  \cup {[isNull |-> TRUE, embedding |-> <<>>]}

\* settings.similarityThreshold: 0.3 (the default) and 0
SearchThresholds == { [num |-> 3, den2 |-> 100], Zero }

\* The embedding field of a chunk: undefined, or one of five vectors
ChunkEmbeddings ==
  {[embedded |-> TRUE, embedding |-> e] :
     e \in { <<1, 0, 0>>, <<9, 1, 0>>, <<5, 5, 0>>, <<0, 1, 0>>, <<1, 0>> }}
  \cup {[embedded |-> FALSE, embedding |-> <<>>]}

\* Lists of up to n embedding fields
RECURSIVE chunkEmbeddingLists(_)
chunkEmbeddingLists(n) ==
  IF n = 0 THEN {<<>>}
  ELSE chunkEmbeddingLists(n - 1) \cup
       {Append(c, e) : c \in {x \in chunkEmbeddingLists(n - 1) : Len(x) = n - 1},
                       e \in ChunkEmbeddings}

\* Lists of ManyChunks embedding fields, more than SearchLimit: a pattern
\* repeated
ManyChunks == 21

Undefined == [embedded |-> FALSE, embedding |-> <<>>]
Vector(e) == [embedded |-> TRUE, embedding |-> e]

Patterns ==
  { << Vector(<<1, 0, 0>>) >>,
    << Vector(<<1, 0, 0>>), Vector(<<5, 5, 0>>) >>,
    << Vector(<<5, 5, 0>>), Vector(<<9, 1, 0>>), Vector(<<1, 0, 0>>) >>,
    << Vector(<<1, 0, 0>>), Undefined, Vector(<<0, 1, 0>>) >> }

manyEmbeddings(n) ==
  {[i \in 1..n |-> pattern[((i - 1) % Len(pattern)) + 1]] : pattern \in Patterns}

\* The chunks of a SEARCH_QUERY request: chunk i has id i
MaxSearchChunks == 2

SearchChunkLists ==
  {[i \in 1..Len(es) |-> SearchChunk(i, es[i])] :
     es \in chunkEmbeddingLists(MaxSearchChunks) \cup manyEmbeddings(ManyChunks)}

InitRank ==
  /\ InitPage
  /\ dom = DocPage
  /\ chunkSize = 200

\* A call op with the arguments args gave result
RankStep(op, args, result) ==
  /\ lastOp' = [op |-> op, args |-> args]
  /\ lastReturn' = result
  /\ UNCHANGED << supportsHighlightAPI, highlightedChunks, activeHighlightId,
                  cssHighlights, stylesInjected, dom, isVisible,
                  inputValue, searchTimeout, overlayResults, currentIndex, countText,
                  chunkSize, pageChunks, isIndexed, currentResults, chunkIdCounter,
                  embeddingRequests, searchRequests, okIds, lastBatch, staleDropped,
                  embeddingPipeline, modelStatus,
                  creatingOffscreen, offscreenDocument, isLoading, embeddingCache, calls >>

CallCosineSimilarity ==
  /\ lastOp.op = "page"
  /\ \E a \in QueryEmbeddings, b \in Embeddings :
       RankStep("cosineSimilarity", [a |-> a, b |-> b], cosineSimilarity(a, b))

CallFindTopKSimilar ==
  /\ lastOp.op = "page"
  /\ \E queryEmbedding \in QueryEmbeddings, chunks \in embeddingLists(MaxRankChunks),
        k \in 0..MaxRankChunks, threshold \in Thresholds :
       RankStep("findTopKSimilar",
                [queryEmbedding |-> queryEmbedding, chunks |-> chunks, k |-> k,
                 threshold |-> threshold],
                findTopKSimilar(queryEmbedding, chunks, k, threshold))

CallHandleSearchQuery ==
  /\ lastOp.op = "page"
  /\ \E response \in QueryResponses, chunks \in SearchChunkLists,
        threshold \in SearchThresholds :
       RankStep("handleSearchQuery",
                [response |-> response, chunks |-> chunks, threshold |-> threshold],
                handleSearchQuery(response, chunks, [similarityThreshold |-> threshold]))

NextRank ==
  \/ CallHandleSearchQuery
  \/ CallCosineSimilarity
  \/ CallFindTopKSimilar

SpecRank == InitRank /\ [][NextRank]_vars

\* ------------------------------------------------------------------------
\* Searches in flight: the content script with the overlay open on an
\* indexed page, the user types queries and the responses arrive in any order
\* ------------------------------------------------------------------------
\* What the user types into the search box: two queries that are searched
LatestQueries == { <<"a", "b">>, <<"c", "d">> }

\* The content script with the overlay open, after indexPage succeeded;
\* lastOp keeps the query submitted last and the query of the response
\* processed last with its results
InitLatest ==
  /\ supportsHighlightAPI \in BOOLEAN
  /\ highlightedChunks = <<>>
  /\ activeHighlightId = NoId
  /\ cssHighlights = NoCss
  /\ stylesInjected = FALSE
  /\ dom = NavPage
  /\ lastReturn = FALSE
  /\ isVisible = TRUE
  /\ inputValue = <<>>
  /\ searchTimeout = FALSE
  /\ overlayResults = <<>>
  /\ currentIndex = 0
  /\ countText = <<>>
  /\ chunkSize = 1
  /\ pageChunks = NavChunks
  /\ isIndexed = TRUE
  /\ currentResults = <<>>
  /\ chunkIdCounter = Len(NavChunks)
  /\ embeddingRequests = NoRequests
  /\ searchRequests = NoRequests
  /\ embeddingPipeline = FALSE
  /\ modelStatus = "idle"
  /\ InitWorker
  /\ okIds = {}
  /\ lastBatch = {}
  /\ staleDropped = FALSE
  /\ lastOp = [op |-> "init", submitted |-> NoQuery, shown |-> NoQuery, results |-> <<>>]

\* The user edits the search box
LatestTypeInput ==
  \E value \in LatestQueries :
    /\ value # inputValue
    /\ Becomes(onInput(Page, value))
    /\ lastOp' = [lastOp EXCEPT !.op = "input"]
    /\ UNCHANGED << okIds, lastBatch, staleDropped >>

\* The debounce timer fires: handleSearch sends the query
LatestDebounceFires ==
  /\ searchTimeout
  /\ \E T \in {onDebounce(Page)} :
       /\ Within(T)
       /\ Becomes(T)
  /\ lastOp' = [lastOp EXCEPT !.op = "search", !.submitted = trim(inputValue)]
  /\ UNCHANGED << okIds, lastBatch, staleDropped >>

\* The response to one of the pending SEARCH_QUERY requests arrives
LatestSearchResponse ==
  \E req \in DOMAIN searchRequests, kind \in {"ok", "fail"} :
    \E results \in IF kind = "ok" THEN searchResults(req.chunks) ELSE {<<>>} :
      \E L \in {handleSearchResume([Page EXCEPT !.searchReqs = bagRemove(@, req)],
                                   kind, results)} :
        /\ Becomes(L.page)
        /\ lastOp' = [lastOp EXCEPT !.op = "response", !.shown = req.query,
                                    !.results = results]
        /\ UNCHANGED << okIds, lastBatch, staleDropped >>

NextLatest ==
  \/ LatestTypeInput
  \/ LatestDebounceFires
  \/ LatestSearchResponse

SpecLatest == InitLatest /\ [][NextLatest]_vars

\* ------------------------------------------------------------------------
\* Service worker: the offscreen document
\* ------------------------------------------------------------------------
\* The variables of the content script and the embedding provider, which the
\* service worker's steps leave alone
pageVars ==
  << supportsHighlightAPI, highlightedChunks, activeHighlightId, cssHighlights,
     stylesInjected, dom, isVisible, inputValue, searchTimeout, overlayResults,
     currentIndex, countText, chunkSize, pageChunks, isIndexed, currentResults,
     chunkIdCounter, embeddingRequests, searchRequests, okIds, lastBatch,
     staleDropped, modelStatus >>

\* The calls of setupOffscreenDocument the model follows
MaxCallers == 3

\* The service worker's and the browser's state as one value; a call is
\* [pc, existing]: pc is "getContexts" (the browser has not answered yet),
\* "answered" (existingContexts.length > 0 is existing, the call has not
\* resumed yet), "creating" (at 'await creatingOffscreen', having called
\* createDocument), "waiting" (at 'await creatingOffscreen' of the first
\* branch), "returned" or "threw"
Worker == [creating |-> creatingOffscreen, doc |-> offscreenDocument, calls |-> calls]

\* sendToOffscreen calls setupOffscreenDocument, which calls getContexts and
\* suspends
setupOffscreenDocument(W) ==
  [W EXCEPT !.calls = Append(@, [pc |-> "getContexts", existing |-> FALSE])]

\* chrome.runtime.getContexts: the browser answers with the offscreen
\* documents there are at this moment
getContexts(W, i) ==
  [W EXCEPT !.calls[i] = [pc |-> "answered", existing |-> W.doc.exists]]

\* chrome.offscreen.createDocument: the browser starts to create the
\* document, or refuses if there is one already or one is being created
createDocument(W) ==
  [W EXCEPT !.creating = "pending",
            !.doc = IF W.doc.exists \/ W.doc.creating \/ W.doc.refusing
                    THEN [@ EXCEPT !.refusing = TRUE]
                    ELSE [@ EXCEPT !.creating = TRUE]]

\* 'if (creatingOffscreen) { await creatingOffscreen } else { creatingOffscreen
\* = chrome.offscreen.createDocument(...); await creatingOffscreen; ... }', up
\* to the await; awaiting a rejected promise throws
createOrWait(W, i) ==
  IF W.creating = "pending" THEN [W EXCEPT !.calls[i].pc = "waiting"]
  ELSE IF W.creating = "rejected" THEN [W EXCEPT !.calls[i].pc = "threw"]
  ELSE createDocument([W EXCEPT !.calls[i].pc = "creating"])

\* setupOffscreenDocument from the answer of getContexts on, up to its await
afterGetContexts(W, i) ==
  IF W.calls[i].existing THEN [W EXCEPT !.calls[i].pc = "returned"]
  ELSE createOrWait(W, i)

\* The calls at 'await creatingOffscreen' resume, one after the other with
\* nothing in between, when the promise is fulfilled: the call that created
\* it runs 'creatingOffscreen = null'
fulfilled(W) ==
  [W EXCEPT !.creating = "null",
            !.calls = [i \in 1..Len(W.calls) |->
                         IF W.calls[i].pc \in {"creating", "waiting"}
                         THEN [W.calls[i] EXCEPT !.pc = "returned"]
                         ELSE W.calls[i]]]

\* The calls at 'await creatingOffscreen' throw when the promise is rejected;
\* 'creatingOffscreen = null' is not reached
rejected(W) ==
  [W EXCEPT !.creating = "rejected",
            !.calls = [i \in 1..Len(W.calls) |->
                         IF W.calls[i].pc \in {"creating", "waiting"}
                         THEN [W.calls[i] EXCEPT !.pc = "threw"]
                         ELSE W.calls[i]]]

\* The browser settles the createDocument call: it refuses a second document,
\* and creates the first or fails to
settle(W, ok) ==
  IF W.doc.refusing THEN rejected([W EXCEPT !.doc.refusing = FALSE])
  ELSE IF ok THEN fulfilled([W EXCEPT !.doc = [@ EXCEPT !.creating = FALSE, !.exists = TRUE]])
  ELSE rejected([W EXCEPT !.doc.creating = FALSE])

\* A step of the service worker produced W; lastOp names the step and keeps
\* what the browser had when a step called createDocument
SetupStep(W, op) ==
  /\ creatingOffscreen' = W.creating
  /\ offscreenDocument' = W.doc
  /\ calls' = W.calls
  /\ lastOp' = [op |-> IF op = "resume" /\ W.creating = "pending"
                                        /\ creatingOffscreen # "pending"
                       THEN "createDocument" ELSE op,
                exists |-> offscreenDocument.exists,
                creating |-> offscreenDocument.creating \/ offscreenDocument.refusing]
  /\ UNCHANGED << pageVars, lastReturn, embeddingPipeline, isLoading, embeddingCache >>

\* A message handler calls sendToOffscreen
SetupCalled ==
  /\ Len(calls) < MaxCallers
  /\ SetupStep(setupOffscreenDocument(Worker), "call")

\* The browser answers a getContexts call
ContextsAnswered ==
  \E i \in 1..Len(calls) :
    /\ calls[i].pc = "getContexts"
    /\ SetupStep(getContexts(Worker, i), "answer")

\* A call resumes with the answer of getContexts
SetupResumes ==
  \E i \in 1..Len(calls) :
    /\ calls[i].pc = "answered"
    /\ SetupStep(afterGetContexts(Worker, i), "resume")

\* The browser settles the createDocument call
CreationSettles ==
  \E ok \in BOOLEAN :
    /\ creatingOffscreen = "pending"
    /\ SetupStep(settle(Worker, ok), "settle")

InitSetup ==
  /\ InitPage
  /\ dom = DocPage
  /\ chunkSize = 200

NextSetup ==
  \/ SetupCalled
  \/ ContextsAnswered
  \/ SetupResumes
  \/ CreationSettles

SpecSetup == InitSetup /\ [][NextSetup]_vars

\* ------------------------------------------------------------------------
\* Offscreen document: loadModel
\* ------------------------------------------------------------------------
\* The calls of loadModel the model follows
MaxLoadCalls == 4

\* The offscreen document's state as one value; a call is [pc]: pc is
\* "loading" (at 'await pipeline(...)'), "polling" (its promise waits for the
\* setInterval callback to resolve it), "true" or "false" (resolved)
Loader == [pipeline |-> embeddingPipeline, isLoading |-> isLoading, calls |-> calls]

\* loadModel up to its first await, or to its return
loadModel(L) ==
  IF L.pipeline THEN [L EXCEPT !.calls = Append(@, [pc |-> "true"])]
  ELSE IF L.isLoading THEN [L EXCEPT !.calls = Append(@, [pc |-> "polling"])]
  ELSE [L EXCEPT !.isLoading = TRUE, !.calls = Append(@, [pc |-> "loading"])]

\* loadModel from 'await pipeline(...)' on: the pipeline is there, or the
\* await threw
afterPipeline(L, i, ok) ==
  IF ok THEN [L EXCEPT !.pipeline = TRUE, !.isLoading = FALSE, !.calls[i].pc = "true"]
  ELSE [L EXCEPT !.isLoading = FALSE, !.calls[i].pc = "false"]

\* The setInterval callback of a waiting call
check(L, i) ==
  IF L.pipeline THEN [L EXCEPT !.calls[i].pc = "true"] ELSE L

\* A step of the offscreen document produced L
LoadStep(L, op) ==
  /\ embeddingPipeline' = L.pipeline
  /\ isLoading' = L.isLoading
  /\ calls' = L.calls
  /\ lastOp' = [op |-> op]
  /\ UNCHANGED << pageVars, lastReturn, creatingOffscreen, offscreenDocument,
                  embeddingCache >>

\* A message handler calls loadModel
LoadCalled ==
  /\ Len(calls) < MaxLoadCalls
  /\ LoadStep(loadModel(Loader), "loadModel")

\* pipeline(...) settles
PipelineSettles ==
  \E i \in 1..Len(calls), ok \in BOOLEAN :
    /\ calls[i].pc = "loading"
    /\ LoadStep(afterPipeline(Loader, i, ok), "pipeline")

\* 100 ms have passed for a waiting call
IntervalFires(i) ==
  /\ i <= Len(calls)
  /\ calls[i].pc = "polling"
  /\ LoadStep(check(Loader, i), "check")

InitLoad ==
  /\ InitPage
  /\ dom = DocPage
  /\ chunkSize = 200

NextLoad ==
  \/ LoadCalled
  \/ PipelineSettles
  \/ \E i \in 1..MaxLoadCalls : IntervalFires(i)

SpecLoad == InitLoad /\ [][NextLoad]_vars

\* The browser runs what is due: a pipeline load settles, an interval timer
\* fires
SpecLoadFair ==
  /\ SpecLoad
  /\ WF_vars(PipelineSettles)
  /\ \A i \in 1..MaxLoadCalls : WF_vars(IntervalFires(i))

\* ------------------------------------------------------------------------
\* Service worker: GET_EMBEDDINGS and the embedding cache
\* ------------------------------------------------------------------------
\* (The pageEmbeddings store is taken to be available: openDB and the
\* requests on the store succeed.)
\* 'store.get(url)'
storeGet(cache, url) == SelectSeq(cache, LAMBDA e : e.url = url)

\* 'store.delete(url)'
deleteCache(cache, url) == SelectSeq(cache, LAMBDA e : e.url # url)

\* getCachedEmbeddings: [cache, found, chunks]; an entry older than
\* CACHE_MAX_AGE is deleted and null is returned
getCachedEmbeddings(cache, url) ==
  IF storeGet(cache, url) = <<>> THEN [cache |-> cache, found |-> FALSE, chunks |-> <<>>]
  ELSE IF storeGet(cache, url)[1].expired
       THEN [cache |-> deleteCache(cache, url), found |-> FALSE, chunks |-> <<>>]
       ELSE [cache |-> cache, found |-> TRUE, chunks |-> storeGet(cache, url)[1].chunks]

\* The records of an object store are kept in the order of their keys:
\* 'https://a.example/' comes first
inKeyOrder(entries) ==
  SelectSeq(entries, LAMBDA e : e.url = "https://a.example/")
  \o SelectSeq(entries, LAMBDA e : e.url # "https://a.example/")

\* cacheEmbeddings: 'store.put({ url, timestamp: Date.now(), chunks })', url
\* being the key
cacheEmbeddings(cache, url, chunks) ==
  inKeyOrder(Append(deleteCache(cache, url),
                    [url |-> url, chunks |-> chunks, expired |-> FALSE]))

\* What handleGetEmbeddings returns
EmbeddingsSucceeded(chunks) == [success |-> TRUE, chunks |-> chunks]
EmbeddingsFailed == [success |-> FALSE, chunks |-> <<>>]

\* textsMatch that looks at the first chunk only (C39 tells it apart)
textsMatchFirst(chunks, cached) ==
  chunks # <<>> => chunks[1].text = cached[1].text

\* 'chunks.every((chunk, i) => chunk.text === cached[i].text)' for lists of
\* the same length
textsMatch(chunks, cached) ==
  \A i \in 1..Len(chunks) : chunks[i].text = cached[i].text

\* 'cached && cached.length === chunks.length' and textsMatch
cacheHit(c, chunks) ==
  c.found /\ Len(c.chunks) = Len(chunks) /\ textsMatch(chunks, c.chunks)

\* 'chunks.map((c) => c.text)'
textsOfChunks(chunks) == [i \in 1..Len(chunks) |-> chunks[i].text]

\* '{ ...chunk, embedding: response.embeddings[i] || undefined }'
chunksWithEmbeddings(chunks, embeddings) ==
  [i \in 1..Len(chunks) |->
     [chunks[i] EXCEPT !.embedded = embeddings[i] # Null,
                       !.embedding = IF embeddings[i] # Null THEN embeddings[i] ELSE <<>>]]

\* The service worker's state as one value; a suspended call is
\* [url, chunks, texts]: it awaits the answer to GENERATE_EMBEDDINGS for texts
Cache == [cache |-> embeddingCache, calls |-> calls, done |-> FALSE,
          response |-> EmbeddingsFailed]

\* handleGetEmbeddings from the cache's answer c on: the cached chunks are
\* returned, or the offscreen document is asked
useCacheOrAsk(G, chunks, url, c) ==
  IF cacheHit(c, chunks)
  THEN [G EXCEPT !.cache = c.cache, !.done = TRUE,
                 !.response = EmbeddingsSucceeded(c.chunks)]
  ELSE [G EXCEPT !.cache = c.cache,
                 !.calls = Append(@, [url |-> url, chunks |-> chunks,
                                      texts |-> textsOfChunks(chunks)])]

\* handleGetEmbeddings up to its return or to the await of sendToOffscreen
handleGetEmbeddings(G, chunks, url) ==
  useCacheOrAsk(G, chunks, url, getCachedEmbeddings(G.cache, url))

\* handleGetEmbeddings from the answer to GENERATE_EMBEDDINGS on; kind is
\* "ok", or "throws" (sendToOffscreen rejected: the catch block answers)
afterSendToOffscreen(G, call, kind, embeddings) ==
  IF kind = "ok"
  THEN [G EXCEPT !.cache = cacheEmbeddings(@, call.url,
                                           chunksWithEmbeddings(call.chunks, embeddings)),
                 !.done = TRUE,
                 !.response = EmbeddingsSucceeded(
                                chunksWithEmbeddings(call.chunks, embeddings))]
  ELSE [G EXCEPT !.done = TRUE, !.response = EmbeddingsFailed]

\* The texts of the pages' chunks; chunk i has id i
ChunkTexts == { "abc", "def" }

MaxCacheChunks == 2

RECURSIVE chunkTextLists(_)
chunkTextLists(n) ==
  IF n = 0 THEN {<<>>}
  ELSE chunkTextLists(n - 1) \cup
       {Append(c, t) : c \in {x \in chunkTextLists(n - 1) : Len(x) = n - 1},
                       t \in ChunkTexts}

chunksOfTexts(ts) ==
  [i \in 1..Len(ts) |-> [id |-> i, text |-> ts[i], embedded |-> FALSE, embedding |-> <<>>]]

\* The GET_EMBEDDINGS requests: the first page with any chunks, the second
\* with one chunk
Requests ==
  {[url |-> "https://a.example/", chunks |-> chunksOfTexts(ts)] :
     ts \in chunkTextLists(MaxCacheChunks)}
  \cup {[url |-> "https://b.example/", chunks |-> chunksOfTexts(<<"abc">>)]}

\* The offscreen document's answers for texts: an embedding for each text,
\* or null for the first
embeddingsFor(texts) ==
  { [i \in 1..Len(texts) |-> embeddingOf(texts[i])],
    [i \in 1..Len(texts) |-> IF i = 1 THEN Null ELSE embeddingOf(texts[i])] }

\* The GET_EMBEDDINGS calls the model follows at a time
MaxGetCalls == 1

\* A step of the service worker produced G; lastOp keeps the call it
\* answered, if it answered one: the request and the offscreen document's
\* answer
CacheStep(G, op, call, kind, embeddings) ==
  /\ embeddingCache' = G.cache
  /\ calls' = G.calls
  /\ lastReturn' = G.response
  /\ lastOp' = [op |-> IF G.done THEN "handleGetEmbeddings" ELSE op,
                url |-> call.url, chunks |-> call.chunks,
                kind |-> kind, embeddings |-> embeddings]
  /\ UNCHANGED << pageVars, embeddingPipeline, creatingOffscreen, offscreenDocument,
                  isLoading >>

\* A GET_EMBEDDINGS message arrives
GetEmbeddingsCalled ==
  /\ Len(calls) < MaxGetCalls
  /\ \E request \in Requests :
       CacheStep(handleGetEmbeddings(Cache, request.chunks, request.url), "ask",
                 [url |-> request.url, chunks |-> request.chunks], "cache", <<>>)

\* The offscreen document's answer to GENERATE_EMBEDDINGS arrives, or the
\* request fails
OffscreenAnswers ==
  \E i \in 1..Len(calls), kind \in {"ok", "throws"} :
    \E embeddings \in IF kind = "ok" THEN embeddingsFor(calls[i].texts) ELSE {<<>>} :
      CacheStep(afterSendToOffscreen(
                  [Cache EXCEPT !.calls = SubSeq(calls, 1, i - 1)
                                          \o SubSeq(calls, i + 1, Len(calls))],
                  calls[i], kind, embeddings),
                "answer", calls[i], kind, embeddings)

\* More than 24 hours pass: the entries of the store are older than
\* CACHE_MAX_AGE
DayPasses ==
  /\ \E k \in 1..Len(embeddingCache) : ~embeddingCache[k].expired
  /\ embeddingCache' = [k \in 1..Len(embeddingCache) |->
                          [embeddingCache[k] EXCEPT !.expired = TRUE]]
  /\ lastOp' = [op |-> "day", url |-> "", chunks |-> <<>>,
                kind |-> "", embeddings |-> <<>>]
  /\ UNCHANGED << pageVars, lastReturn, embeddingPipeline, creatingOffscreen,
                  offscreenDocument, isLoading, calls >>

InitCache ==
  /\ InitPage
  /\ dom = DocPage
  /\ chunkSize = 200

NextCache ==
  \/ GetEmbeddingsCalled
  \/ OffscreenAnswers
  \/ DayPasses

SpecCache == InitCache /\ [][NextCache]_vars

\* ------------------------------------------------------------------------
\* Properties
\* ------------------------------------------------------------------------
\* C1: after any sequence of highlightText, removeHighlight,
\* setActiveHighlight and clearAllHighlights calls, the active chunk id is
\* unset or is a key of the registry that has a range entry.
C1_ActiveIsRegistered ==
  \/ activeHighlightId = NoId
  \/ /\ regHas(highlightedChunks, activeHighlightId)
     /\ Len(regRanges(highlightedChunks, activeHighlightId)) > 0

\* The state after setActiveHighlight(id) was called for an id the registry
\* does not hold
C1_DanglingActive ==
  /\ lastOp.op = "setActiveHighlight"
  /\ ~lastOp.known
  /\ activeHighlightId = lastOp.id

\* C2: if highlightText(id, text) returns false, the registry (a prior entry
\* of id included) and the active id are what they were before the call.
C2_FailedHighlightChangesNothing ==
  [][(lastOp'.op = "highlightText" /\ lastReturn' = FALSE)
       => /\ highlightedChunks' = highlightedChunks
          /\ activeHighlightId' = activeHighlightId]_vars

\* The state after highlightText returned false for an id that was
\* highlighted and active before the call
C2_FailedRehighlight ==
  /\ lastOp.op = "highlightText"
  /\ lastReturn = FALSE
  /\ lastOp.known
  /\ lastOp.before = lastOp.id

\* C3: setActiveHighlight(id) for an id that has no registry entry is a
\* no-op: the registry and the active id are the same as before the call.
C3_UnknownIdIsNoOp ==
  [][(lastOp'.op = "setActiveHighlight" /\ ~regHas(highlightedChunks, lastOp'.id))
       => /\ highlightedChunks' = highlightedChunks
          /\ activeHighlightId' = activeHighlightId]_vars

\* The state after setActiveHighlight(id) for an unknown id was called while
\* a registered chunk was active
C3_ActiveDemoted ==
  /\ lastOp.op = "setActiveHighlight"
  /\ ~lastOp.known
  /\ lastOp.before # NoId
  /\ regHas(highlightedChunks, lastOp.before)
  /\ activeHighlightId # lastOp.before

\* C4: indexing is coalesced: at most one GET_EMBEDDINGS request is
\* outstanding at any time.
C4_OneEmbeddingsRequest == bagSize(embeddingRequests) <= 1

\* C5: at every state all chunk ids in the registry were registered while one
\* single search response was processed (the latest one).
C5_OneResponse == regKeys(highlightedChunks) \subseteq lastBatch

\* Highlights stand, and the response that registered them found highlights
\* of an earlier response, of ids it did not register itself
C5_EarlierHighlightsDropped ==
  /\ staleDropped
  /\ highlightedChunks # <<>>

\* C6: once the overlay is closed the registry is empty, and it stays empty
\* for as long as the overlay stays hidden.
C6_HiddenMeansNoHighlights == ~isVisible => highlightedChunks = <<>>

\* C7: after setActiveHighlight(id) for an id in the registry, id is the one
\* active chunk: the active id is id, the active rendering holds the ranges of
\* id and no others, and every entry of the registry (that of the chunk active
\* before included) is unchanged, the others rendered as plain highlights.
C7_OneActive ==
  [][(lastOp'.op = "setActiveHighlight" /\ regHas(highlightedChunks, lastOp'.id))
       => /\ activeHighlightId' = lastOp'.id
          /\ highlightedChunks' = highlightedChunks
          /\ supportsHighlightAPI =>
               /\ cssHighlights'[ACTIVE_HIGHLIGHT_NAME]
                    = regRanges(highlightedChunks, lastOp'.id)
               /\ cssHighlights'[HIGHLIGHT_NAME]
                    = collectRanges(highlightedChunks, lastOp'.id, FALSE)]_vars

\* The state after setActiveHighlight(id) moved the active marker from one
\* registered chunk to another
C7_ActiveMoved ==
  /\ lastOp.op = "setActiveHighlight"
  /\ lastOp.known
  /\ activeHighlightId = lastOp.id
  /\ lastOp.before \notin {NoId, lastOp.id}
  /\ regHas(highlightedChunks, lastOp.before)
  /\ supportsHighlightAPI

\* What removeHighlight(id) does to the registry and the active id in a step
\* from (chunks, active) to (chunks2, active2)
removesOnly(chunks, active, chunks2, active2, id) ==
  /\ ~regHas(chunks2, id)
  /\ active2 = (IF active = id THEN NoId ELSE active)
  /\ \A x \in regKeys(chunks) \ {id} :
       regHas(chunks2, x) /\ regRanges(chunks2, x) = regRanges(chunks, x)
  /\ regKeys(chunks2) \subseteq regKeys(chunks)

C9_ClearAll ==
  lastOp.op = "clearAllHighlights"
    => /\ getHighlightCount(Page) = 0
       /\ activeHighlightId = NoId
       /\ cssHighlights[HIGHLIGHT_NAME] = <<>>
       /\ cssHighlights[ACTIVE_HIGHLIGHT_NAME] = <<>>
       /\ markerSpans(dom) = {}
       /\ clearAllHighlights(Page) = Page

\* The state after clearAllHighlights() was called with two chunks
\* highlighted, one of them active
C9_ClearedTwo ==
  /\ lastOp.op = "clearAllHighlights"
  /\ lastOp.count = 2
  /\ lastOp.before # NoId

\* C10: getHighlightCount() is the number of distinct ids whose most recent
\* highlightText call returned true and that were not removed or cleared
\* since; re-highlighting a highlighted id does not increase it, and
\* setActiveHighlight never changes it.
C10_CountOfHighlighted ==
  [][/\ getHighlightCount(Page)' = Cardinality(okIds')
     /\ lastOp'.op = "setActiveHighlight"
          => getHighlightCount(Page)' = getHighlightCount(Page)
     /\ (lastOp'.op = "highlightText" /\ regHas(highlightedChunks, lastOp'.id))
          => getHighlightCount(Page)' <= getHighlightCount(Page)]_vars

\* The state after a highlighted id was highlighted again, with success,
\* while another id was highlighted too
C10_Rehighlighted ==
  /\ lastOp.op = "highlightText"
  /\ lastOp.known
  /\ lastReturn = TRUE
  /\ lastOp.count = 2
  /\ getHighlightCount(Page) = 2

\* ------------------------------------------------------------------------
\* Vocabulary of the claims about the location of a text
\* ------------------------------------------------------------------------
\* needle is a substring of hay
occursIn(hay, needle) ==
  \E i \in 0..(Len(hay) - Len(needle)) : SubSeq(hay, i + 1, i + Len(needle)) = needle

\* The first of the strategy strings, in order, that is a substring of full
firstOccurring(full, strategies) ==
  IF \E k \in 1..Len(strategies) : occursIn(full, strategies[k])
  THEN strategies[firstIndex({k \in 1..Len(strategies) : occursIn(full, strategies[k])})]
  ELSE <<"none">>

\* The string highlightText(text) is to match in document d
matchedString(d, text) ==
  firstOccurring(normalizedFull(d), searchStrategies(normalizeText(text)))

\* Number of characters in the first n text nodes of d
RECURSIVE rawLen(_, _)
rawLen(d, n) == IF n = 0 THEN 0 ELSE rawLen(d, n - 1) + Len(d[n].text)

\* Position of offset o of text node i, counted in characters from the start
\* of the document (wrapping a text in a marker element does not move it)
absPos(d, i, o) == rawLen(d, i - 1) + o

\* The text nodes of d inside one of the marker elements of ranges
spanNodes(d, ranges) ==
  {i \in 1..Len(d) :
     \E k \in 1..Len(ranges), j \in 1..Len(d[i].spans) : d[i].spans[j] = ranges[k].span}

\* Where the anchor registered as ranges starts and ends in document d: the
\* boundary points of the Range (range registration), the first and the
\* last character inside its marker elements (fallback)
anchorStart(d, ranges) ==
  IF ranges[1].span = 0 THEN absPos(d, ranges[1].sn, ranges[1].so)
  ELSE absPos(d, firstIndex(spanNodes(d, ranges)), 0)

anchorEnd(d, ranges) ==
  IF ranges[1].span = 0 THEN absPos(d, ranges[Len(ranges)].en, ranges[Len(ranges)].eo)
  ELSE rawLen(d, -firstIndex({-i : i \in spanNodes(d, ranges)}))

\* The part of text node i of d that lies between the positions a and b
between(d, i, a, b) ==
  SubSeq(d[i].text, IF a > rawLen(d, i - 1) THEN a - rawLen(d, i - 1) + 1 ELSE 1,
                    (IF b < rawLen(d, i) THEN b ELSE rawLen(d, i)) - rawLen(d, i - 1))

\* The rendered text nodes of d that have characters between a and b
touched(d, idx, a, b) ==
  SelectSeq(idx, LAMBDA i : rawLen(d, i - 1) < b /\ rawLen(d, i) > a)

\* The text of the given text nodes between a and b, node after node
coveredIn(d, idx, a, b) ==
  joinSpace([k \in 1..Len(idx) |-> between(d, idx[k], a, b)])

\* The raw document text an anchor from a to b covers
coveredText(d, a, b) == coveredIn(d, touched(d, walkTextNodes(d), a, b), a, b)

\* The positions in d where string m occurs: the normalized text from there
\* on starts with m
restFrom(d, idx, p) == normalizeText(coveredIn(d, idx, p, rawLen(d, Len(d))))

startsWith(t, m) == Len(t) >= Len(m) /\ SubSeq(t, 1, Len(m)) = m

occurrences(d, m) ==
  {p \in 0..(rawLen(d, Len(d)) - 1) :
     /\ touched(d, walkTextNodes(d), p, p + 1) # <<>>
     /\ ~IsSpace(coveredText(d, p, p + 1)[1])
     /\ startsWith(restFrom(d, touched(d, walkTextNodes(d), p, rawLen(d, Len(d))), p), m)}

\* The text nodes of d that extractPageText yields a fragment for
extracted(d) == {extractPageText(d)[k].node : k \in 1..Len(extractPageText(d))}

\* C11: highlightText of a text whose normalized form is shorter than 3
\* characters returns false and registers nothing, whatever the document
\* holds, in both rendering backends.
C11_ShortTextFails ==
  (lastOp.op = "highlightText" /\ Len(normalizeText(lastOp.text)) < 3)
    => /\ lastReturn = FALSE
       /\ ~regHas(highlightedChunks, lastOp.id)

\* The state after the fallback backend wrapped a text of fewer than 3
\* characters in a marker element
C11_ShortTextWrapped ==
  /\ lastOp.op = "highlightText"
  /\ Len(normalizeText(lastOp.text)) < 3
  /\ lastReturn = TRUE
  /\ markerSpans(dom) # {}

\* C12: highlightText of a text whose normalized form has at least 3
\* characters returns true if one of the seven strategy strings is a substring
\* of the flattened normalized document text, and false if none is, in both
\* rendering backends.
C12_FoundIffAStrategyOccurs ==
  [][(lastOp'.op = "highlightText" /\ Len(normalizeText(lastOp'.text)) >= 3)
       => \E full \in {normalizedFull(dom)},
             strategies \in {searchStrategies(normalizeText(lastOp'.text))} :
            lastReturn' <=> \E k \in 1..7 : occursIn(full, strategies[k])]_vars

\* The state after highlightText returned false for a text whose first three
\* words stand in the document
C12_LooserStringIgnored ==
  /\ lastOp.op = "highlightText"
  /\ Len(normalizeText(lastOp.text)) >= 3
  /\ lastReturn = FALSE
  /\ occursIn(normalizedFull(dom), getFirstWords(normalizeText(lastOp.text), 3))

\* C13: the raw document text between the start and the end of the anchor
\* that highlightText registered for a text of at least 3 characters,
\* normalized, is the strategy string that was matched.
C13_AnchorCoversMatch ==
  [][(lastOp'.op = "highlightText" /\ Len(normalizeText(lastOp'.text)) >= 3 /\ lastReturn')
       => normalizeText(coveredText(dom',
                                    anchorStart(dom', regRanges(highlightedChunks', lastOp'.id)),
                                    anchorEnd(dom', regRanges(highlightedChunks', lastOp'.id))))
          = matchedString(dom, lastOp'.text)]_vars

\* The state after a text was located in a text node that starts with
\* whitespace (range registration)
C13_LeadingWhitespace ==
  /\ lastOp.op = "highlightText"
  /\ lastReturn = TRUE
  /\ supportsHighlightAPI
  /\ IsSpace(dom[regRanges(highlightedChunks, lastOp.id)[1].sn].text[1])

\* The ranges are one anchor: one Range, or the marker elements of text nodes
\* that follow one another
oneAnchor(d, ranges) ==
  IF ranges[1].span = 0 THEN Len(ranges) = 1
  ELSE \A i \in 1..Len(d) :
         (absPos(d, i, 0) >= anchorStart(d, ranges) /\ rawLen(d, i) <= anchorEnd(d, ranges))
           => i \in spanNodes(d, ranges)

\* C14: when the matched string (of at least 3 characters) occurs several
\* times in the document, a successful highlightText registers one contiguous anchor, which starts
\* where the earliest occurrence starts; no marker element lies outside it.
C14_FirstOccurrenceOnly ==
  [][(/\ lastOp'.op = "highlightText"
      /\ Len(normalizeText(lastOp'.text)) >= 3
      /\ lastReturn'
      /\ Cardinality(occurrences(dom, matchedString(dom, lastOp'.text))) >= 2)
       => /\ oneAnchor(dom', regRanges(highlightedChunks', lastOp'.id))
          /\ anchorStart(dom', regRanges(highlightedChunks', lastOp'.id))
               = firstIndex(occurrences(dom, matchedString(dom, lastOp'.text)))
          /\ \A i \in 1..Len(dom') :
               dom'[i].spans # <<>>
                 => i \in spanNodes(dom', regRanges(highlightedChunks', lastOp'.id))]_vars

\* C15: highlightText (of a text of at least 3 characters) never anchors a
\* highlight inside a text node that extractPageText rejects on the same
\* document.
C15_AnchorInExtractedText ==
  [][(lastOp'.op = "highlightText" /\ Len(normalizeText(lastOp'.text)) >= 3 /\ lastReturn')
       => \A i \in 1..Len(dom) :
            (/\ rawLen(dom, i - 1) < anchorEnd(dom', regRanges(highlightedChunks', lastOp'.id))
             /\ rawLen(dom, i) > anchorStart(dom', regRanges(highlightedChunks', lastOp'.id)))
              => i \in extracted(dom)]_vars

\* The state after a text was located in the <nav> element
C15_AnchorInNav ==
  /\ lastOp.op = "highlightText"
  /\ lastReturn = TRUE
  /\ supportsHighlightAPI
  /\ dom[regRanges(highlightedChunks, lastOp.id)[1].sn].tag = "NAV"

\* The marker elements of a registry entry's ranges
rangeSpans(ranges) == {ranges[k].span : k \in 1..Len(ranges)} \ {0}

\* C16: in the fallback backend, after removeHighlight(id), and after a
\* repeated highlightText(id, ...), no marker element of the earlier highlight
\* of id remains in the document.
C16_RemovalUnwraps ==
  [][(/\ lastOp'.op \in {"removeHighlight", "highlightText"}
      /\ ~supportsHighlightAPI
      /\ regHas(highlightedChunks, lastOp'.id))
       => rangeSpans(regRanges(highlightedChunks, lastOp'.id)) \cap markerSpans(dom') = {}]_vars

\* The state after removeHighlight(id) removed the only highlight and left
\* its marker element in the document
C16_MarkerLeftBehind ==
  /\ lastOp.op = "removeHighlight"
  /\ lastOp.known
  /\ ~supportsHighlightAPI
  /\ highlightedChunks = <<>>
  /\ markerSpans(dom) # {}

\* C17: in the fallback backend, after setActiveHighlight(id) for a
\* highlighted id, the marker elements that carry the class
\* 'semantic-find-highlight-active' are those of id, and no others.
C17_ActiveClassOnMarker ==
  (lastOp.op = "setActiveHighlight" /\ lastOp.known /\ ~supportsHighlightAPI)
    => querySelectorAll(dom, ACTIVE_HIGHLIGHT_NAME)
         = rangeSpans(regRanges(highlightedChunks, lastOp.id))

\* The state after setActiveHighlight(id) for a chunk highlighted by the
\* fallback backend
C17_FallbackActivated ==
  /\ lastOp.op = "setActiveHighlight"
  /\ lastOp.known
  /\ ~supportsHighlightAPI
  /\ activeHighlightId = lastOp.id
  /\ querySelectorAll(dom, HIGHLIGHT_NAME)
       = rangeSpans(regRanges(highlightedChunks, lastOp.id))

\* ------------------------------------------------------------------------
\* Vocabulary of the claims about the chunker
\* ------------------------------------------------------------------------
\* The indices of the fragments that assignment a puts into chunk k
groupOf(a, k) == SelectSeq([i \in 1..Len(a) |-> i], LAMBDA i : a[i] = k)

\* The texts of the fragments with the given indices
textsOf(f, idx) == [j \in 1..Len(idx) |-> f[idx[j]].text]

\* The ways to split the fragments f into runs of consecutive fragments, one
\* run per chunk and in the order of the chunks, such that every chunk's
\* text is the texts of its run joined by single spaces; a[i] is the chunk
\* that fragment i is placed in
placements(f, chunks) ==
  {a \in [1..Len(f) -> 1..Len(chunks)] :
     /\ \A i \in 1..(Len(f) - 1) : a[i + 1] \in {a[i], a[i] + 1}
     /\ \A k \in 1..Len(chunks) :
          /\ \E i \in 1..Len(f) : a[i] = k
          /\ chunks[k].text = joinSpace(textsOf(f, groupOf(a, k)))}

\* The offsets of chunk c are those of the run of fragments idx
offsetsOf(f, idx, c) ==
  /\ c.startOffset = f[idx[1]].startOffset
  /\ c.endOffset = f[idx[Len(idx)]].startOffset + Len(f[idx[Len(idx)]].text)

\* C18: for a positive targetSize, chunkText places every fragment whole in
\* exactly one chunk, in input order, and the chunk texts joined by single
\* spaces are the fragment texts joined by single spaces.
C18_ChunksPartitionFragments ==
  (lastOp.op = "chunkText" /\ lastOp.targetSize > 0)
    => /\ placements(lastOp.textNodes, pageChunks) # {}
       /\ joinSpace([k \in 1..Len(pageChunks) |-> pageChunks[k].text])
            = joinSpace([i \in 1..Len(lastOp.textNodes) |-> lastOp.textNodes[i].text])

\* The state after chunkText made several chunks of the fragments, one of
\* them of more than one fragment
C18_SeveralChunks ==
  /\ lastOp.op = "chunkText"
  /\ lastOp.targetSize > 0
  /\ Len(pageChunks) >= 2
  /\ Len(lastOp.textNodes) > Len(pageChunks)

\* C19: every chunk's startOffset is the startOffset of the first fragment
\* placed in it and its endOffset the startOffset plus the text length of the
\* last one; the [startOffset, endOffset] intervals of consecutive chunks
\* increase strictly and do not overlap.
C19_ChunkOffsets ==
  lastOp.op = "chunkText"
    => /\ \E a \in placements(lastOp.textNodes, pageChunks) :
            \A k \in 1..Len(pageChunks) :
              offsetsOf(lastOp.textNodes, groupOf(a, k), pageChunks[k])
       /\ \A k \in 1..Len(pageChunks) :
            /\ pageChunks[k].startOffset < pageChunks[k].endOffset
            /\ k < Len(pageChunks) => pageChunks[k].endOffset < pageChunks[k + 1].startOffset

\* The state after chunkText made a chunk of two fragments that is not the
\* first chunk
C19_LaterChunkOfTwo ==
  /\ lastOp.op = "chunkText"
  /\ Len(pageChunks) = 2
  /\ Len(lastOp.textNodes) = 3
  /\ pageChunks[2].startOffset = lastOp.textNodes[2].startOffset
  /\ pageChunks[2].endOffset > lastOp.textNodes[3].startOffset

\* C20: chunkText returns the empty sequence if the fragment list is empty
\* or targetSize <= 0.
C20_DegenerateInputsYieldNothing ==
  (lastOp.op = "chunkText" /\ (lastOp.textNodes = <<>> \/ lastOp.targetSize <= 0))
    => pageChunks = <<>>

\* The state after chunkText(fragments, 0) returned chunks
C20_ChunksOfSizeZero ==
  /\ lastOp.op = "chunkText"
  /\ lastOp.targetSize = 0
  /\ pageChunks # <<>>

\* C21: every chunk that chunkText builds from two or more fragments has a
\* text of at most targetSize characters; only a chunk of a single fragment
\* may be longer.
C21_JoinedChunkWithinTarget ==
  lastOp.op = "chunkText"
    => \A a \in placements(lastOp.textNodes, pageChunks) :
         \A k \in 1..Len(pageChunks) :
           Len(groupOf(a, k)) >= 2 => Len(pageChunks[k].text) <= lastOp.targetSize

\* The state after chunkText joined two fragments into a chunk one character
\* longer than targetSize
C21_JoinSpaceNotCounted ==
  /\ lastOp.op = "chunkText"
  /\ Len(lastOp.textNodes) = 2
  /\ Len(pageChunks) = 1
  /\ Len(pageChunks[1].text) = lastOp.targetSize + 1

\* C22: for a single fragment and a positive targetSize, also one smaller
\* than the fragment, chunkText returns exactly one chunk, whose text is the
\* fragment's text.
C22_SingleFragmentVerbatim ==
  (lastOp.op = "chunkText" /\ Len(lastOp.textNodes) = 1 /\ lastOp.targetSize > 0)
    => /\ Len(pageChunks) = 1
       /\ pageChunks[1].text = lastOp.textNodes[1].text

\* The state after chunkText was given one fragment longer than targetSize,
\* with whitespace inside
C22_OversizedFragment ==
  /\ lastOp.op = "chunkText"
  /\ Len(lastOp.textNodes) = 1
  /\ lastOp.targetSize > 0
  /\ lastOp.targetSize < Len(lastOp.textNodes[1].text)
  /\ \E i \in 1..Len(lastOp.textNodes[1].text) : IsSpace(lastOp.textNodes[1].text[i])

\* C24: the first fragment of extractPageText has startOffset 0, every
\* following one the startOffset of the one before plus the length of its
\* text plus 1; every fragment's text is the trimmed text of its node and has
\* at least 3 characters; fragments are in document order.
C24_ExtractorOffsets ==
  lastOp.op = "chunkText"
    => \A i \in 1..Len(lastOp.textNodes) :
         /\ lastOp.textNodes[i].startOffset
              = (IF i = 1 THEN 0
                 ELSE lastOp.textNodes[i - 1].startOffset
                      + Len(lastOp.textNodes[i - 1].text) + 1)
         /\ i > 1 => /\ lastOp.textNodes[i].startOffset > lastOp.textNodes[i - 1].startOffset
                     /\ lastOp.textNodes[i].node > lastOp.textNodes[i - 1].node
         /\ Len(lastOp.textNodes[i].text) >= 3
         /\ ~IsSpace(lastOp.textNodes[i].text[1])
         /\ ~IsSpace(lastOp.textNodes[i].text[Len(lastOp.textNodes[i].text)])
         /\ occursIn(dom[lastOp.textNodes[i].node].text, lastOp.textNodes[i].text)

\* The state after a page was extracted whose first text node is too short
\* and whose other two have whitespace around them or not
C24_ShortNodeSkipped ==
  /\ lastOp.op = "chunkText"
  /\ Len(dom) = 3
  /\ Len(dom[1].text) < 3
  /\ Len(lastOp.textNodes) = 2
  /\ IsSpace(dom[lastOp.textNodes[1].node].text[1])

\* C23: in a page session the id counter never decreases, and every call of
\* chunkText that produced chunks (a GET_EMBEDDINGS request is sent for them)
\* gave them the ids from the counter's value before the call on, one each,
\* and advanced the counter past them: no id issued before is issued again,
\* also when the page is indexed again while a request is pending.
C23_IdsNeverReused ==
  [][/\ chunkIdCounter' >= chunkIdCounter
     /\ bagSize(embeddingRequests') > bagSize(embeddingRequests)
          => /\ Len(pageChunks') > 0
             /\ chunkIdCounter' = chunkIdCounter + Len(pageChunks')
             /\ \A i \in 1..Len(pageChunks') :
                  pageChunks'[i].id = chunkIdCounter + i - 1
     /\ \A req \in DOMAIN embeddingRequests' :
          \A i \in 1..Len(req.chunks) : req.chunks[i].id < chunkIdCounter']_vars

\* The state with two GET_EMBEDDINGS requests pending for the same page,
\* indexed twice
C23_IndexedTwiceConcurrently ==
  /\ \E r1, r2 \in DOMAIN embeddingRequests :
       /\ r1 # r2
       /\ \A i \in 1..Len(r1.chunks), j \in 1..Len(r2.chunks) :
            r1.chunks[i].id # r2.chunks[j].id
  /\ chunkIdCounter = 2 * Len(pageChunks)
  /\ Len(pageChunks) > 0

\* C29: with n > 0 results in the overlay currentIndex is in 0..n-1; a new
\* result list sets it to 0 and the label to '1 of n' (to nothing for no
\* results); next sets it to (i+1) mod n and previous to (i-1+n) mod n, with
\* the label 'i+1 of n' and the list kept; previous right after next gives
\* the index before next; with no results next and previous change nothing.
C29_NavigationWraps ==
  [][/\ Len(overlayResults') > 0 => currentIndex' \in 0..(Len(overlayResults') - 1)
     /\ lastOp'.op = "updateResults"
          => /\ currentIndex' = 0
             /\ countText' = IF Len(overlayResults') > 0
                             THEN <<1, Len(overlayResults')>> ELSE <<>>
     /\ (lastOp'.op \in {"navigateNext", "navigatePrev"} /\ Len(overlayResults) = 0)
          => UNCHANGED << overlayResults, currentIndex, countText, activeHighlightId,
                          highlightedChunks, cssHighlights, dom >>
     /\ (lastOp'.op = "navigateNext" /\ Len(overlayResults) > 0)
          => /\ currentIndex' = (currentIndex + 1) % Len(overlayResults)
             /\ countText' = <<currentIndex' + 1, Len(overlayResults)>>
             /\ overlayResults' = overlayResults
     /\ (lastOp'.op = "navigatePrev" /\ Len(overlayResults) > 0)
          => /\ currentIndex' = (currentIndex - 1 + Len(overlayResults)) % Len(overlayResults)
             /\ countText' = <<currentIndex' + 1, Len(overlayResults)>>
             /\ overlayResults' = overlayResults
     /\ (lastOp.op = "navigateNext" /\ lastOp'.op = "navigatePrev" /\ Len(overlayResults) > 0)
          => currentIndex' = lastOp.index
    ]_vars

\* The state after previous was pressed on the first of three results: the
\* last one is current
C29_WrappedToLast ==
  /\ lastOp.op = "navigatePrev"
  /\ Len(overlayResults) = 3
  /\ currentIndex = 2
  /\ countText = <<3, 3>>

\* C30: generateEmbeddings returns a list as long as texts; position i holds
\* the vector for texts[i], or null exactly when the pipeline threw for
\* texts[i], in every batch; when the model cannot be loaded every position
\* holds null.
C30_OneResultPerText ==
  lastOp.op = "generateEmbeddings"
    => /\ Len(lastReturn) = Len(lastOp.texts)
       /\ \A i \in 1..Len(lastOp.texts) :
            lastReturn[i] = IF lastOp.loaded /\ i \notin lastOp.failed
                            THEN embeddingOf(lastOp.texts[i]) ELSE Null

\* The state after a call with two texts more than one batch holds, the
\* pipeline having thrown for the last text of the first batch and the first
\* of the second
C30_AcrossBatches ==
  /\ lastOp.op = "generateEmbeddings"
  /\ lastOp.loaded
  /\ Len(lastOp.texts) = batchSize + 2
  /\ lastOp.failed = {batchSize, batchSize + 1}
  /\ lastReturn[batchSize + 2] # Null

\* ------------------------------------------------------------------------
\* Vocabulary of the similarity claims
\* ------------------------------------------------------------------------
\* The number cosineSimilarity gives for the query and chunk i (from 0) of a
\* findTopKSimilar call
scoreAt(args, i) == cosineSimilarity(args.queryEmbedding, args.chunks[i + 1]).value

\* The indices (from 0) of the chunks whose score is at least the threshold
passing(args) ==
  {i \in 0..(Len(args.chunks) - 1) : scoreGE(scoreAt(args, i), args.threshold)}

\* The indices in a result
indicesOf(items) == {items[i].index : i \in 1..Len(items)}

\* All chunks of the call have the query's length
sameLengths(args) ==
  \A i \in 1..Len(args.chunks) : Len(args.chunks[i]) = Len(args.queryEmbedding)

sameScore(x, y) == scoreGE(x, y) /\ scoreGE(y, x)

\* C25: findTopKSimilar returns Min(k, number of passing chunks) entries,
\* each the index of a passing chunk with its score, no index twice, in
\* descending order of score, and no passing chunk left out has a score
\* greater than a returned one's; no chunks or no passing chunk give the
\* empty list.
C25_TopKOfPassing ==
  (lastOp.op = "findTopKSimilar" /\ sameLengths(lastOp.args))
    => /\ ~lastReturn.error
       /\ Len(lastReturn.value)
            = Min(lastOp.args.k, Cardinality(passing(lastOp.args)))
       /\ indicesOf(lastReturn.value) \subseteq passing(lastOp.args)
       /\ Cardinality(indicesOf(lastReturn.value)) = Len(lastReturn.value)
       /\ \A i \in 1..Len(lastReturn.value) :
            /\ lastReturn.value[i].score = scoreAt(lastOp.args, lastReturn.value[i].index)
            /\ i > 1 => scoreGE(lastReturn.value[i - 1].score, lastReturn.value[i].score)
            /\ \A m \in passing(lastOp.args) \ indicesOf(lastReturn.value) :
                 scoreGE(lastReturn.value[i].score, scoreAt(lastOp.args, m))

\* The state after a call that had to leave out passing chunks, and chunks
\* below the threshold, and returned the later chunk first
C25_CutAndFiltered ==
  /\ lastOp.op = "findTopKSimilar"
  /\ ~lastReturn.error
  /\ Len(lastReturn.value) = 2
  /\ Cardinality(passing(lastOp.args)) = 3
  /\ lastOp.args.threshold.num > 0
  /\ lastReturn.value[1].index > lastReturn.value[2].index
  /\ ~sameScore(lastReturn.value[1].score, lastReturn.value[2].score)

\* C26: in the result of findTopKSimilar entries of the same score are in
\* ascending order of index, and a passing chunk left out that has the score
\* of a returned entry has the greater index.
C26_TiesInIndexOrder ==
  (lastOp.op = "findTopKSimilar" /\ ~lastReturn.error)
    => \A i \in 1..Len(lastReturn.value) :
         /\ \A j \in (i + 1)..Len(lastReturn.value) :
              sameScore(lastReturn.value[i].score, lastReturn.value[j].score)
                => lastReturn.value[i].index < lastReturn.value[j].index
         /\ \A m \in passing(lastOp.args) \ indicesOf(lastReturn.value) :
              sameScore(lastReturn.value[i].score, scoreAt(lastOp.args, m))
                => lastReturn.value[i].index < m

\* The state after a call whose cut fell between chunks of the same score,
\* behind a chunk of a greater score and a later index
C26_CutInsideTie ==
  /\ lastOp.op = "findTopKSimilar"
  /\ ~lastReturn.error
  /\ Len(lastReturn.value) = 2
  /\ lastReturn.value[1].index = 1
  /\ lastReturn.value[2].index = 0
  /\ 2 \in passing(lastOp.args)
  /\ sameScore(lastReturn.value[2].score, scoreAt(lastOp.args, 2))

\* C27: cosineSimilarity throws whenever its arguments differ in length, and
\* findTopKSimilar throws, returning nothing, whenever some chunk's embedding
\* differs in length from the query.
C27_LengthMismatchThrows ==
  /\ (lastOp.op = "cosineSimilarity" /\ Len(lastOp.args.a) # Len(lastOp.args.b))
       => (lastReturn.error /\ lastReturn.value = "Vectors must have the same length")
  /\ (lastOp.op = "findTopKSimilar" /\ ~sameLengths(lastOp.args))
       => (lastReturn.error /\ lastReturn.value = "Vectors must have the same length")

\* The state after a findTopKSimilar call whose first chunk is the query and
\* whose last chunk is of another length
C27_MatchThenMismatch ==
  /\ lastOp.op = "findTopKSimilar"
  /\ Len(lastOp.args.chunks) = 3
  /\ lastOp.args.chunks[1] = lastOp.args.queryEmbedding
  /\ Len(lastOp.args.queryEmbedding) = 3
  /\ Len(lastOp.args.chunks[3]) = 2
  /\ lastOp.args.k = 3
  /\ lastReturn.error

\* C28: cosineSimilarity of two vectors of the same length returns 0, and no
\* NaN, whenever one of them has only zeros or both are empty.
C28_ZeroNormGivesZero ==
  (/\ lastOp.op = "cosineSimilarity"
   /\ Len(lastOp.args.a) = Len(lastOp.args.b)
   /\ \/ \A i \in 1..Len(lastOp.args.a) : lastOp.args.a[i] = 0
      \/ \A i \in 1..Len(lastOp.args.b) : lastOp.args.b[i] = 0)
    => lastReturn = Returns(Zero)

\* The state after cosineSimilarity([], [])
C28_BothEmpty ==
  /\ lastOp.op = "cosineSimilarity"
  /\ lastOp.args.a = <<>>
  /\ lastOp.args.b = <<>>
  /\ ~lastReturn.error

RECURSIVE rangesOfEntries(_)
rangesOfEntries(entries) ==
  IF entries = <<>> THEN <<>>
  ELSE Head(entries).ranges \o rangesOfEntries(Tail(entries))

\* C32: with range registration, after every highlighter operation the
\* rendering mirrors the registry: the active highlight holds the ranges of
\* the entry of the active id (none if there is no such entry), the plain
\* highlight the ranges of all other entries, and every registered range is
\* in one of the two and not in both.
C32_RenderingMirrorsRegistry ==
  supportsHighlightAPI
    => /\ cssHighlights[ACTIVE_HIGHLIGHT_NAME]
            = (IF regHas(highlightedChunks, activeHighlightId)
               THEN regRanges(highlightedChunks, activeHighlightId) ELSE <<>>)
       /\ cssHighlights[HIGHLIGHT_NAME]
            = rangesOfEntries(SelectSeq(highlightedChunks,
                                        LAMBDA e : e.id # activeHighlightId))
       /\ Len(cssHighlights[ACTIVE_HIGHLIGHT_NAME]) + Len(cssHighlights[HIGHLIGHT_NAME])
            = Len(rangesOfEntries(highlightedChunks))

\* The state in which two chunks are registered and one of them is active,
\* each rendered in its own class
C32_OneActiveOnePlain ==
  /\ supportsHighlightAPI
  /\ Len(highlightedChunks) = 2
  /\ regHas(highlightedChunks, activeHighlightId)
  /\ cssHighlights[ACTIVE_HIGHLIGHT_NAME] # <<>>
  /\ cssHighlights[HIGHLIGHT_NAME] # <<>>

\* C38: a SEARCH_QUERY request is sent only when the page is indexed;
\* isIndexed becomes true only in the step in which a GET_EMBEDDINGS response
\* replaces pageChunks by its chunks; and when the response awaited by a
\* search arrives, either it succeeded and the search is sent with the chunks
\* of the response, or it failed and the search is abandoned: no request is
\* sent, the overlay's result list is empty and the index is as it was.
C38_SearchOnlyWhenIndexed ==
  [][/\ bagSize(searchRequests') > bagSize(searchRequests) => isIndexed'
     /\ (~isIndexed /\ isIndexed')
          => \E req \in DOMAIN embeddingRequests :
               /\ embeddingRequests' = bagRemove(embeddingRequests, req)
               /\ pageChunks' = withEmbeddings(req.chunks)
     /\ \A req \in DOMAIN embeddingRequests :
          (embeddingRequests' = bagRemove(embeddingRequests, req) /\ req.caller # NoQuery)
            => \/ /\ isIndexed'
                  /\ pageChunks' = withEmbeddings(req.chunks)
                  /\ searchRequests'
                       = bagAdd(searchRequests, [query |-> req.caller, chunks |-> pageChunks'])
               \/ /\ isIndexed' = isIndexed
                  /\ pageChunks' = pageChunks
                  /\ searchRequests' = searchRequests
                  /\ overlayResults' = <<>>]_vars

\* The state after a query of two characters was submitted on a page not
\* indexed and every GET_EMBEDDINGS request failed: nothing is in flight
C38_SearchAbandoned ==
  /\ Len(trim(inputValue)) >= 2
  /\ ~searchTimeout
  /\ ~isIndexed
  /\ pageChunks # <<>>
  /\ bagSize(embeddingRequests) = 0
  /\ bagSize(searchRequests) = 0
  /\ overlayResults = <<>>

\* C34: at every state the chunk ids of the registry are ids of the
\* overlay's current result list; when the overlay shows no results, no
\* highlight remains.
C34_HighlightsAmongResults ==
  regKeys(highlightedChunks) \subseteq {overlayResults[i].id : i \in 1..Len(overlayResults)}

\* The state in which the overlay, still open, shows no results while a
\* chunk of an earlier search is highlighted
C34_HighlightsOutliveResults ==
  /\ isVisible
  /\ overlayResults = <<>>
  /\ countText = <<>>
  /\ highlightedChunks # <<>>

\* C33: latest query wins: once the debounce timer has fired and every
\* SEARCH_QUERY response has been processed, the response processed last,
\* whose results the overlay shows and the page highlights, is that of the
\* query submitted last.
C33_LatestQueryWins ==
  (~searchTimeout /\ bagSize(searchRequests) = 0 /\ lastOp.submitted # NoQuery)
    => /\ lastOp.shown = lastOp.submitted
       /\ overlayResults = lastOp.results

\* The state in which nothing is pending and the overlay shows, and the page
\* highlights, the results of a query submitted before the last one
C33_EarlierQueryShown ==
  /\ ~searchTimeout
  /\ bagSize(searchRequests) = 0
  /\ lastOp.shown \notin {NoQuery, lastOp.submitted}
  /\ overlayResults = lastOp.results
  /\ overlayResults # <<>>
  /\ regKeys(highlightedChunks) = {overlayResults[i].id : i \in 1..Len(overlayResults)}

\* C35: the results of handleSearchQuery are, in order, the chunks at the
\* indices that findTopKSimilar(query embedding, the chunks that have an
\* embedding, 20, similarityThreshold) returns, with its scores: at most 20,
\* none without an embedding, none below the threshold, the scores
\* non-increasing. The call fails if and only if there is no query embedding
\* or findTopKSimilar throws.
C35_SearchIsTopK ==
  lastOp.op = "handleSearchQuery"
    => IF lastOp.args.response.isNull THEN ~lastReturn.success
       ELSE \E emb \in {embeddedChunks(lastOp.args.chunks)} :
              \E top \in {findTopKSimilar(lastOp.args.response.embedding,
                                          [i \in 1..Len(emb) |-> emb[i].embedding],
                                          SearchLimit, lastOp.args.threshold)} :
                /\ lastReturn.success = ~top.error
                /\ lastReturn.success
                     => /\ Len(lastReturn.results) = Len(top.value)
                        /\ Len(lastReturn.results) <= SearchLimit
                        /\ \A i \in 1..Len(lastReturn.results) :
                             /\ lastReturn.results[i].chunk = emb[top.value[i].index + 1]
                             /\ lastReturn.results[i].score = top.value[i].score
                             /\ lastReturn.results[i].chunk.embedded
                             /\ scoreGE(lastReturn.results[i].score, lastOp.args.threshold)
                             /\ \A j \in 1..(i - 1) :
                                  scoreGE(lastReturn.results[j].score,
                                          lastReturn.results[i].score)

\* The state after handleSearchQuery ranked more than 20 chunks that pass the
\* threshold: 20 results, the first of them not the first chunk
C35_TwentyOfMore ==
  /\ lastOp.op = "handleSearchQuery"
  /\ lastReturn.success
  /\ Len(lastReturn.results) = SearchLimit
  /\ Len(embeddedChunks(lastOp.args.chunks)) > SearchLimit
  /\ lastReturn.results[1].chunk.id # 1
  /\ lastReturn.results[SearchLimit].score # lastReturn.results[1].score

\* C36: whatever the order in which concurrent setupOffscreenDocument calls
\* resume from the existence check and the creation await,
\* chrome.offscreen.createDocument is never invoked while an offscreen
\* document exists or while another creation is in progress.
C36_OneCreation ==
  lastOp.op = "createDocument" => ~lastOp.exists /\ ~lastOp.creating

\* The state after a call that found no document at its existence check
\* resumed when the document of another call existed, and called
\* createDocument
C36_CreatedTwice ==
  /\ lastOp.op = "createDocument"
  /\ lastOp.exists
  /\ offscreenDocument.refusing
  /\ \E i \in 1..Len(calls) : calls[i].pc = "returned"

\* C37: every call of the offscreen document's loadModel eventually
\* resolves, with true or false, a call made while a load that then fails is
\* in flight included; and at most one pipeline load is in flight.
C37_EveryCallResolves ==
  /\ [](Cardinality({i \in 1..Len(calls) : calls[i].pc = "loading"}) <= 1)
  /\ \A i \in 1..MaxLoadCalls :
       (i <= Len(calls)) ~> (i <= Len(calls) /\ calls[i].pc \in {"true", "false"})

\* The state in which the load in flight has failed and a call that waited
\* for it still polls: no pipeline, nothing loading
C37_WaiterLeftPolling ==
  /\ ~embeddingPipeline
  /\ ~isLoading
  /\ \E i \in 1..Len(calls) : calls[i].pc = "false"
  /\ \E i \in 1..Len(calls) : calls[i].pc = "polling"

\* The store has an entry for url, not older than a day, with as many chunks
\* as the request and the same text at every position
matchingEntry(cache, url, chunks) ==
  \E k \in 1..Len(cache) :
    /\ cache[k].url = url
    /\ ~cache[k].expired
    /\ Len(cache[k].chunks) = Len(chunks)
    /\ \A i \in 1..Len(chunks) : cache[k].chunks[i].text = chunks[i].text

\* In a step that answers a request from the cache, the store has a matching
\* entry and its chunks are the answer; in a step that asks the offscreen
\* document, the store has none and the texts of all chunks are asked for
servedOnlyOnMatch ==
  /\ (lastOp'.op = "handleGetEmbeddings" /\ lastOp'.kind = "cache")
       => /\ matchingEntry(embeddingCache, lastOp'.url, lastOp'.chunks)
          /\ lastReturn'.success
          /\ \E k \in 1..Len(embeddingCache) :
               /\ embeddingCache[k].url = lastOp'.url
               /\ lastReturn'.chunks = embeddingCache[k].chunks
          /\ embeddingCache' = embeddingCache
  /\ lastOp'.op = "ask"
       => /\ ~matchingEntry(embeddingCache, lastOp'.url, lastOp'.chunks)
          /\ Len(calls') = Len(calls) + 1
          /\ calls'[Len(calls')].texts
               = [i \in 1..Len(lastOp'.chunks) |-> lastOp'.chunks[i].text]

\* The answer of the step is the request's chunks, chunk i with embedding i
\* (undefined for null), and the store's entry for the URL holds them, the
\* other entries being as before
freshAttachedAndStored ==
  /\ lastReturn'.success
  /\ Len(lastReturn'.chunks) = Len(lastOp'.chunks)
  /\ \A i \in 1..Len(lastOp'.chunks) :
       /\ lastReturn'.chunks[i].id = lastOp'.chunks[i].id
       /\ lastReturn'.chunks[i].text = lastOp'.chunks[i].text
       /\ lastReturn'.chunks[i].embedded = (lastOp'.embeddings[i] # Null)
       /\ lastReturn'.chunks[i].embedded
            => lastReturn'.chunks[i].embedding = lastOp'.embeddings[i]
  /\ SelectSeq(embeddingCache', LAMBDA e : e.url = lastOp'.url)
       = << [url |-> lastOp'.url, chunks |-> lastReturn'.chunks, expired |-> FALSE] >>
  /\ SelectSeq(embeddingCache', LAMBDA e : e.url # lastOp'.url)
       = SelectSeq(embeddingCache, LAMBDA e : e.url # lastOp'.url)

====
